---- MODULE Spec2Model ----
(***************************************************************************)
(* A state-machine model of the example programs of the repository         *)
(* cpp-introductory-examples.  Every example is a standalone main(); the   *)
(* variable prog says which example a behaviour runs.  In mode "main" the  *)
(* statements of main run in source order with the literals of the source; *)
(* in mode "any" the same operations are applied in any order, or to any   *)
(* argument of a small set, so that the general statements about the       *)
(* operations are checked beyond the one run main performs.                *)
(***************************************************************************)
EXTENDS Integers, Sequences, FiniteSets, TLC

VARIABLES
    prog,       \* the example program that runs
    mode,       \* "main": the statements of main; "any": free use of the operations;
                \* "invoke": free use of myInvoke and of direct calls on one closure
    pc,         \* position in main
    status,     \* "running", "done" (main returned) or "crashed" (abnormal end)
    exitCode,   \* the value main returned; -1 while none
    out,        \* the values written to std::cout, in order
    locals,     \* the local variables of main that closures capture
    closures,   \* the closure objects (functors) created so far
    opCount,    \* closure operations performed so far
    callCount,  \* history: how often each closure object has been invoked
    lastOp,     \* history: the closure operation performed last
    vec,        \* the std::vector of the example: its elements and its capacity
    idx,        \* the loop variable i of the loop that runs
    lastRead,   \* the value the last element access produced
    x,          \* unsigned short x of the unsigned-length example
    n,          \* parameter n of doSomethingNTimes
    counter,    \* local counter of doSomethingNTimes
    raised,     \* the exception in flight: "none" or its type
    caught,     \* history: the exceptions handled by a catch clause, in order
    heap,       \* the heap objects: whether each is alive, and its value
    ptr,        \* int *ptr of the dangling examples: the object it points to
    accesses,   \* history: the uses of heap objects, each with the liveness it met
    g_counter,  \* the global counter of the stack-overflow example
    stack,      \* the call stack: one frame per active call
    stackLimit, \* the number of eat_stack calls the stack has room to print in
    cin,        \* std::cin: the characters not yet read and the stream state
    extracts,   \* history: one record per extraction from std::cin
    given       \* the literals the run constructs its objects from

vars == <<prog, mode, pc, status, exitCode, out, locals, closures, opCount,
          callCount, lastOp, vec, idx, lastRead, x, n, counter, raised, caught,
          heap, ptr, accesses, g_counter, stack, stackLimit, cin, extracts, given>>

ctlVars == <<prog, mode, given>>
closureVars == <<locals, closures, opCount, callCount, lastOp>>
heapVars == <<heap, ptr, accesses>>
stackVars == <<g_counter, stack, stackLimit>>
cinVars == <<cin, extracts>>
vecVars == <<vec, idx, lastRead>>
ushortVars == <<x, n, counter>>
excVars == <<raised, caught>>
\* What the closure examples, the vector examples, the heap example, the
\* stack example and the console examples leave alone.
otherThanClosures == <<vecVars, ushortVars, excVars, heapVars, stackVars, cinVars>>
otherThanVectors == <<closureVars, heapVars, stackVars, cinVars>>
otherThanHeap == <<vecVars, ushortVars, excVars, stackVars, cinVars, locals, opCount,
                   callCount, lastOp>>
otherThanStack == <<closureVars, vecVars, ushortVars, excVars, heapVars, cinVars>>
otherThanConsole == <<closures, opCount, callCount, lastOp, vecVars, ushortVars,
                      excVars, heapVars, stackVars>>

(***************************************************************************)
(* Bounds of the model.                                                    *)
(***************************************************************************)
MaxOps == 5        \* closure operations per run in mode "any"
MaxCopies == 2     \* copies of closures made per run in mode "any"
MaxTimes == 2      \* largest argument of doSomethingNTimes in mode "any"
MaxIndex == 6      \* largest index of a checked access in mode "any"
MaxStack == 12     \* largest number of eat_stack frames the stack holds
MaxTokens == 3     \* most tokens of a console input
MaxArg == 3        \* largest argument of add and multiply in mode "any"
MaxCount == 3      \* largest element count of a direct initialization in mode "any"
MaxList == 2       \* longest initializer list in mode "any"
MaxY == 3          \* largest magnitude of the value transformed in mode "any"

(***************************************************************************)
(* Closures.  A lambda is a functor: each variable captured by value is a  *)
(* data member of the object, initialised from the outer variable when the *)
(* lambda is defined; a variable captured by reference is an alias of the  *)
(* outer variable.  delta is what the body adds to the captured variable   *)
(* (++i is +1, --bananas is -1) and prints says whether the body writes    *)
(* the new value to std::cout.                                             *)
(***************************************************************************)
CaptureByValue(name, env, delta, prints) ==
    [byRef |-> FALSE, name |-> name, member |-> env[name],
     delta |-> delta, prints |-> prints, wrapped |-> FALSE]

\* A capture that stores the value the outer variable has at the definition
\* instead of aliasing it.
CaptureSnapshot(name, env, delta, prints) ==
    [byRef |-> FALSE, name |-> name, member |-> env[name],
     delta |-> delta, prints |-> prints, wrapped |-> FALSE]

\* [&name]() {...}: the closure aliases the outer variable.
CaptureByReference(name, env, delta, prints) ==
    [byRef |-> TRUE, name |-> name, member |-> 0,
     delta |-> delta, prints |-> prints, wrapped |-> FALSE]

\* std::function name{lambda}: the object is a std::function<void()> that
\* holds the closure.
WrapInFunction(c) == [c EXCEPT !.wrapped = TRUE]

\* The value of the captured variable as the closure c sees it.
Captured(c, env) == IF c.byRef THEN env[c.name] ELSE c.member

\* A copy that is initialised from the outer variable again (the "1, 2, 1"
\* a reader might expect).
CopyFromOuter(c, env) ==
    IF c.byRef THEN c ELSE [c EXCEPT !.member = env[c.name]]

\* The implicit copy constructor of the closure type: member-wise copy.  A
\* by-value member is copied with its current value, a reference member
\* still aliases the same outer variable.
CopyConstruct(c, env) == c

\* The body run on a reference capture: the outer variable itself is updated.
CallWritesOuter(c, env) ==
    [closure |-> c,
     env |-> [env EXCEPT ![c.name] = Captured(c, env) + c.delta],
     value |-> Captured(c, env) + c.delta]

\* A body whose captured value does not persist across calls: every call
\* starts from the outer variable again.
CallStartsFromOuter(c, env) ==
    [closure |-> [c EXCEPT !.member = env[c.name] + c.delta],
     env |-> env,
     value |-> env[c.name] + c.delta]

\* The body run on a value capture of a mutable lambda: the data member of
\* the closure object is updated, the outer variable is not touched.
CallWritesMember(c, env) ==
    [closure |-> [c EXCEPT !.member = Captured(c, env) + c.delta],
     env |-> env,
     value |-> Captured(c, env) + c.delta]

\* operator() of the closure: the body pre-increments (or pre-decrements)
\* the captured variable.  Returns the closure and the environment after the
\* call and the new value of the captured variable.
Call(c, env) ==
    IF c.byRef THEN CallWritesOuter(c, env) ELSE CallWritesMember(c, env)

\* A myInvoke whose parameter always refers to the argument itself.
MyInvokeBinds(c, env, viaRef) ==
    [closure |-> Call(c, env).closure, env |-> Call(c, env).env,
     value |-> Call(c, env).value, self |-> TRUE]

\* A myInvoke that always runs a temporary copy of its argument.
MyInvokeCopies(c, env, viaRef) ==
    [closure |-> c, env |-> Call(CopyConstruct(c, env), env).env,
     value |-> Call(CopyConstruct(c, env), env).value, self |-> FALSE]

\* void myInvoke(const std::function<void()> &fn) { fn(); } called with the
\* object c, or with std::ref(c) when viaRef.  A std::function argument
\* binds to the parameter, and a std::function made from std::ref(c) holds
\* a reference to c: in both cases fn() runs c itself.  Any other argument
\* is converted: a temporary std::function holding a copy of c is made for
\* the call, fn() runs the copy and c does not change.  self says whether
\* c itself was run.
MyInvoke(c, env, viaRef) ==
    IF c.wrapped \/ viaRef
    THEN [closure |-> Call(c, env).closure, env |-> Call(c, env).env,
          value |-> Call(c, env).value, self |-> TRUE]
    ELSE [closure |-> c, env |-> Call(CopyConstruct(c, env), env).env,
          value |-> Call(CopyConstruct(c, env), env).value, self |-> FALSE]

(***************************************************************************)
(* main of the lambda-copy example and of the lambda-captures example as   *)
(* scripts of closure operations, one entry per statement.                 *)
(***************************************************************************)
OpCapture(name, byRef, delta, prints) ==
    [op |-> "capture", c |-> 0, name |-> name, byRef |-> byRef,
     delta |-> delta, prints |-> prints]
OpCaptureFunction(name, delta, prints) ==
    [op |-> "capture_fn", c |-> 0, name |-> name, byRef |-> FALSE,
     delta |-> delta, prints |-> prints]
OpInvoke(c, viaRef) ==
    [op |-> IF viaRef THEN "invoke_ref" ELSE "invoke", c |-> c, name |-> "",
     byRef |-> FALSE, delta |-> 0, prints |-> FALSE]
OpCall(c) ==
    [op |-> "call", c |-> c, name |-> "", byRef |-> FALSE, delta |-> 0, prints |-> FALSE]
OpCopy(c) ==
    [op |-> "copy", c |-> c, name |-> "", byRef |-> FALSE, delta |-> 0, prints |-> FALSE]
OpPrint(name) ==
    [op |-> "print", c |-> 0, name |-> name, byRef |-> FALSE, delta |-> 0, prints |-> TRUE]

\* int i{0}; auto count{[i]() mutable {...}}; count(); auto otherCount{count};
\* count(); otherCount();
LambdaCopyLocals == [i |-> 0, j |-> 0, k |-> 0, m |-> 0]
LambdaCopyBasic ==
    << OpCapture("i", FALSE, 1, TRUE),   \* closure 1: count
       OpCall(1),
       OpCopy(1),                        \* closure 2: otherCount
       OpCall(1),
       OpCall(2) >>

\* int j{0}; auto count2{[j]() mutable {...}}; myInvoke(count2) three times;
\* int k{0}; std::function count3{[k]() mutable {...}}; myInvoke(count3)
\* three times; int m{0}; auto count4{[m]() mutable {...}};
\* myInvoke(std::ref(count4)) three times.
LambdaCopyInvokes ==
    << OpCapture("j", FALSE, 1, TRUE),          \* closure 3: count2
       OpInvoke(3, FALSE),
       OpInvoke(3, FALSE),
       OpInvoke(3, FALSE),
       OpCaptureFunction("k", 1, TRUE),         \* closure 4: count3
       OpInvoke(4, FALSE),
       OpInvoke(4, FALSE),
       OpInvoke(4, FALSE),
       OpCapture("m", FALSE, 1, TRUE),          \* closure 5: count4
       OpInvoke(5, TRUE),
       OpInvoke(5, TRUE),
       OpInvoke(5, TRUE) >>

LambdaCopyScript == LambdaCopyBasic \o LambdaCopyInvokes

\* int shells{3}; throwShell(); throwShell(); print shells;
\* int bananas{3}; throwBanana(); throwBanana(); print bananas;
\* nEnemies{3}; a lambda capturing &nEnemies that is never called; print nEnemies
\* A main that invokes the lambda that captures nEnemies.
LambdaCapturesInvokingAll ==
    << OpCapture("shells", FALSE, -1, TRUE),
       OpCall(1),
       OpCall(1),
       OpPrint("shells"),
       OpCapture("bananas", TRUE, -1, FALSE),
       OpCall(2),
       OpCall(2),
       OpPrint("bananas"),
       OpCapture("nEnemies", TRUE, -1, FALSE),
       OpCall(3),
       OpPrint("nEnemies") >>

\* std::array<std::string_view, 4> arr{"apple", "banana", "walnut", "lemon"}
Arr ==
    << <<"a", "p", "p", "l", "e">>, <<"b", "a", "n", "a", "n", "a">>,
       <<"w", "a", "l", "n", "u", "t">>, <<"l", "e", "m", "o", "n">> >>

LambdaCapturesLocals ==
    [shells |-> 3, bananas |-> 3, nEnemies |-> 3, arr |-> Arr, search |-> << >>,
     width |-> 0, height |-> 0]
LambdaCapturesScript ==
    << OpCapture("shells", FALSE, -1, TRUE),    \* closure 1: throwShell
       OpCall(1),
       OpCall(1),
       OpPrint("shells"),
       OpCapture("bananas", TRUE, -1, FALSE),   \* closure 2: throwBanana
       OpCall(2),
       OpCall(2),
       OpPrint("bananas"),
       OpCapture("nEnemies", TRUE, -1, FALSE),  \* closure 3: unnamed, never called
       OpPrint("nEnemies") >>

ClosurePrograms == {"lambda_copy", "lambda_captures"}

Script(p) == IF p = "lambda_copy" THEN LambdaCopyScript ELSE LambdaCapturesScript
ScriptLocals(p) == IF p = "lambda_copy" THEN LambdaCopyLocals ELSE LambdaCapturesLocals

\* The statements whose closures exist when the operations are used freely.
\* The third lambda of the lambda-captures example is a temporary of an
\* expression statement: no object remains that could be called, so only
\* throwShell and throwBanana are there to use.
FreeScript(p) ==
    IF p = "lambda_copy" THEN LambdaCopyBasic ELSE SubSeq(LambdaCapturesScript, 1, 8)

\* The closure a capture entry of a script defines.
Define(o, env) ==
    IF o.op = "capture_fn"
    THEN WrapInFunction(CaptureByValue(o.name, env, o.delta, o.prints))
    ELSE IF o.byRef THEN CaptureByReference(o.name, env, o.delta, o.prints)
    ELSE CaptureByValue(o.name, env, o.delta, o.prints)

\* The closures a script defines, in order, from the initial locals.
RECURSIVE DefinedBy(_, _)
DefinedBy(s, env) ==
    IF s = << >> THEN << >>
    ELSE IF Head(s).op \in {"capture", "capture_fn"}
         THEN <<Define(Head(s), env)>> \o DefinedBy(Tail(s), env)
         ELSE DefinedBy(Tail(s), env)

\* An output record: who wrote it (closure index, 0 for main) and the value.
Printed(who, v) == [what |-> "value", who |-> who, v |-> v]

\* An output record of main that names the quantity printed.
Labelled(what, v) == [what |-> what, who |-> 0, v |-> v]

\* History record of an operation performed: the operation, the object it
\* acted on and the value of the captured variable it computed or printed.
Done(o, v) == [op |-> o.op, c |-> o.c, value |-> v]

\* Whether the operation o may be the next one.
Allowed(o) ==
    /\ prog \in ClosurePrograms
    /\ status = "running"
    /\ pc = "main"
    /\ IF mode = "main"
       THEN /\ opCount < Len(Script(prog))
            /\ Script(prog)[opCount + 1] = o
       ELSE IF mode = "any"
       THEN /\ opCount < MaxOps
            /\ o.op \in {"call", "copy"}
            /\ o.op = "copy" =>
                  Len(closures) < Len(DefinedBy(FreeScript(prog), ScriptLocals(prog)))
                                    + MaxCopies
       ELSE /\ opCount < MaxOps
            /\ o.op \in {"call", "invoke", "invoke_ref"}

\* auto name{[x]() mutable {...}} or [&x]() {...}: the lambda is defined.
DefineLambda ==
    \E o \in {Script(prog)[k] : k \in 1..Len(Script(prog))} :
        /\ o.op \in {"capture", "capture_fn"}
        /\ Allowed(o)
        /\ closures' = Append(closures, Define(o, locals))
        /\ callCount' = Append(callCount, 0)
        /\ opCount' = opCount + 1
        /\ lastOp' = Done(o, 0)
        /\ UNCHANGED <<ctlVars, pc, status, exitCode, out, locals, otherThanClosures>>

\* c(): the closure is invoked.
InvokeClosure ==
    \E c \in 1..Len(closures) :
        /\ Allowed(OpCall(c))
        /\ LET r == Call(closures[c], locals) IN
              /\ closures' = [closures EXCEPT ![c] = r.closure]
              /\ locals' = r.env
              /\ out' = IF closures[c].prints
                        THEN Append(out, Printed(c, r.value)) ELSE out
              /\ lastOp' = Done(OpCall(c), r.value)
        /\ callCount' = [callCount EXCEPT ![c] = @ + 1]
        /\ opCount' = opCount + 1
        /\ UNCHANGED <<ctlVars, pc, status, exitCode, otherThanClosures>>

\* myInvoke(c) or myInvoke(std::ref(c)).  The value is written by the
\* object that fn() runs, in the call made for c.
InvokeThroughMyInvoke ==
    \E c \in 1..Len(closures) : \E viaRef \in BOOLEAN :
        /\ Allowed(OpInvoke(c, viaRef))
        /\ \E r \in {MyInvoke(closures[c], locals, viaRef)} :
              /\ closures' = [closures EXCEPT ![c] = r.closure]
              /\ locals' = r.env
              /\ out' = IF closures[c].prints
                        THEN Append(out, Printed(c, r.value)) ELSE out
              /\ lastOp' = Done(OpInvoke(c, viaRef), r.value)
              /\ callCount' = [callCount EXCEPT ![c] = IF r.self THEN @ + 1 ELSE @]
        /\ opCount' = opCount + 1
        /\ UNCHANGED <<ctlVars, pc, status, exitCode, otherThanClosures>>

\* auto other{c}: the closure is copied.
CopyClosure ==
    \E c \in 1..Len(closures) :
        /\ Allowed(OpCopy(c))
        /\ closures' = Append(closures, CopyConstruct(closures[c], locals))
        /\ callCount' = Append(callCount, 0)
        /\ opCount' = opCount + 1
        /\ lastOp' = Done(OpCopy(c), 0)
        /\ UNCHANGED <<ctlVars, pc, status, exitCode, out, locals, otherThanClosures>>

\* std::cout << x: main prints one of its own variables.
PrintLocal ==
    \E v \in {Script(prog)[k].name : k \in {d \in 1..Len(Script(prog)) : Script(prog)[d].op = "print"}} :
        /\ Allowed(OpPrint(v))
        /\ out' = Append(out, Printed(0, locals[v]))
        /\ opCount' = opCount + 1
        /\ lastOp' = Done(OpPrint(v), locals[v])
        /\ UNCHANGED <<ctlVars, pc, status, exitCode, locals, closures, callCount,
                       otherThanClosures>>

\* return 0 at the end of main.
ClosureReturn ==
    /\ prog \in ClosurePrograms
    /\ status = "running"
    /\ IF prog = "lambda_captures" /\ mode = "main" THEN pc = "return"
       ELSE IF mode = "main" THEN opCount = Len(Script(prog))
       ELSE opCount = MaxOps
    /\ status' = "done"
    /\ exitCode' = 0
    /\ pc' = "done"
    /\ UNCHANGED <<ctlVars, out, closureVars, otherThanClosures>>

(***************************************************************************)
(* std::vector.  The object holds its elements and the number of elements  *)
(* its allocation has room for.                                            *)
(***************************************************************************)
\* std::vector<int>(count): count value-initialised elements.
VectorOfCount(count) == [elems |-> [k \in 1..count |-> 0], cap |-> count]

\* A list constructor that takes a one-element list for an element count.
ListAsCount(list) ==
    IF Len(list) = 1 THEN [elems |-> [k \in 1..list[1] |-> 0], cap |-> list[1]]
    ELSE [elems |-> list, cap |-> Len(list)]

\* std::vector<int>{a, b, ...}: the allocation is exactly as large as the list.
VectorOf(list) == [elems |-> list, cap |-> Len(list)]

\* A growth policy that adds room for one element only.
GrowByOne(cap) == cap + 1

\* The capacity after a reallocation forced by an append to a full vector:
\* the capacity doubles (one element for an empty vector).
Grow(cap) == IF cap = 0 THEN 1 ELSE 2 * cap

\* An insertion in front of the elements.
PushFront(v, value) ==
    [elems |-> <<value>> \o v.elems,
     cap |-> IF Len(v.elems) = v.cap THEN 2 * v.cap + 1 ELSE v.cap]

\* data.push_back(value)
PushBack(v, value) ==
    [elems |-> Append(v.elems, value),
     cap |-> IF Len(v.elems) = v.cap THEN Grow(v.cap) ELSE v.cap]

\* An access that takes the index for valid up to and including the length.
AtOffByOne(v, i) ==
    IF i > Len(v.elems)
    THEN [raised |-> "out_of_range", value |-> 0]
    ELSE [raised |-> "none",
          value |-> IF i < Len(v.elems) THEN v.elems[i + 1] ELSE 0]

\* v.at(i): the bounds-checked access.  i is a size_t, so never negative.
At(v, i) ==
    IF i >= Len(v.elems)
    THEN [raised |-> "out_of_range", value |-> 0]
    ELSE [raised |-> "none", value |-> v.elems[i + 1]]

\* What an unchecked read of v[i] can produce: the element for a valid index;
\* for any other index the behaviour is undefined, and the build either
\* reads whatever the storage holds or faults.
Garbage == {0, 4242}
Faults == {"read", "segfault"}

\* A handler written for another exception type, std::length_error.
CatchesLengthError(handler, exc) == exc = "length_error"

\* catch (const T &e) handles an exception of type T.
Catches(handler, exc) == handler = exc

(***************************************************************************)
(* The vector memory-layout example.                                       *)
(***************************************************************************)
Primes8 == <<2, 3, 5, 7, 11, 13, 17, 19>>

\* v[i] without bounds check.  fault and g say what the undefined access
\* does when i is no valid index.
Subscript(v, i, fault, g) ==
    IF i < Len(v.elems) THEN [crash |-> FALSE, value |-> v.elems[i + 1]]
    ELSE IF fault = "segfault" THEN [crash |-> TRUE, value |-> 0]
    ELSE [crash |-> FALSE, value |-> g]

\* std::cout << "Address of vector:" << &data: the address is recorded as the
\* name of the object that lives there.
LayoutPrintVector ==
    /\ prog = "vector_layout" /\ status = "running" /\ pc = "print_vector"
    /\ out' = Append(out, Labelled("address", "data"))
    /\ pc' = "addresses_before"
    /\ idx' = 0
    /\ UNCHANGED <<ctlVars, status, exitCode, otherThanVectors, vec, lastRead,
                   ushortVars, excVars>>

\* for (i = 0; i < data.size(); ++i) before push_back and
\* for (i = 0; i < data.capacity(); ++i) after it:
\*     std::cout << "Address at position " << i << ": " << &data[i] << std::endl;
\* The address of an element is recorded as its offset i in the allocation.
\* The position is written before data[i] is evaluated.  Past size() the
\* subscript is undefined: it yields the address of the unconstructed slot
\* or, in a build that checks the subscript, stops the process.
LayoutAddresses ==
    \E at \in {"addresses_before", "addresses_after"} :
        /\ prog = "vector_layout" /\ status = "running" /\ pc = at
        /\ IF idx < (IF at = "addresses_before" THEN Len(vec.elems) ELSE vec.cap)
           THEN \E fault \in Faults :
                \E r \in {Subscript(vec, idx, fault, 0)} :
                   IF r.crash
                   THEN /\ status' = "crashed"
                        /\ out' = Append(out, Labelled("position", idx))
                        /\ UNCHANGED <<pc, idx>>
                   ELSE /\ out' = out \o <<Labelled("position", idx),
                                           Labelled("element_address", idx)>>
                        /\ idx' = idx + 1
                        /\ UNCHANGED <<pc, status>>
           ELSE /\ pc' = IF at = "addresses_before" THEN "print_before" ELSE "iterate"
                /\ idx' = 0
                /\ UNCHANGED <<out, status>>
        /\ UNCHANGED <<ctlVars, exitCode, otherThanVectors, vec, lastRead, ushortVars, excVars>>

\* std::cout << data.size() and data.capacity(), before push_back
LayoutPrintBefore ==
    /\ prog = "vector_layout" /\ status = "running" /\ pc = "print_before"
    /\ out' = out \o <<Labelled("size", Len(vec.elems)), Labelled("capacity", vec.cap)>>
    /\ pc' = "push_back"
    /\ UNCHANGED <<ctlVars, status, exitCode, otherThanVectors, vecVars, ushortVars, excVars>>

\* data.push_back(21)
LayoutPushBack ==
    /\ prog = "vector_layout" /\ status = "running" /\ pc = "push_back"
    /\ vec' = PushBack(vec, 21)
    /\ pc' = "print_after"
    /\ UNCHANGED <<ctlVars, status, exitCode, out, otherThanVectors, idx, lastRead,
                   ushortVars, excVars>>

\* std::cout << data.size() and data.capacity(), after push_back
LayoutPrintAfter ==
    /\ prog = "vector_layout" /\ status = "running" /\ pc = "print_after"
    /\ out' = out \o <<Labelled("size", Len(vec.elems)), Labelled("capacity", vec.cap)>>
    /\ pc' = "addresses_after"
    /\ idx' = 0
    /\ UNCHANGED <<ctlVars, status, exitCode, otherThanVectors, vec, lastRead,
                   ushortVars, excVars>>

\* for (i = 0; i < data.capacity(); ++i)
\*     std::cout << "Value at position " << i << ": " << data[i] << std::endl;
\* The elements past size() are inside the allocation but were never
\* constructed: the read is undefined, it yields whatever the storage holds
\* or, in a build that checks the subscript, stops the process after the
\* position has been written.
LayoutIterate ==
    /\ prog = "vector_layout" /\ status = "running" /\ pc = "iterate"
    /\ IF idx < vec.cap
       THEN \E fault \in Faults : \E g \in Garbage :
            \E r \in {Subscript(vec, idx, fault, g)} :
               IF r.crash
               THEN /\ status' = "crashed"
                    /\ out' = Append(out, Labelled("position", idx))
                    /\ UNCHANGED <<pc, idx, lastRead>>
               ELSE /\ lastRead' = r.value
                    /\ out' = out \o <<Labelled("position", idx),
                                       Labelled("element", r.value)>>
                    /\ idx' = idx + 1
                    /\ UNCHANGED <<pc, status>>
       ELSE /\ pc' = "return"
            /\ UNCHANGED <<idx, lastRead, out, status>>
    /\ UNCHANGED <<ctlVars, exitCode, otherThanVectors, vec, ushortVars, excVars>>

\* return 0
LayoutReturn ==
    /\ prog = "vector_layout" /\ status = "running" /\ pc = "return"
    /\ status' = "done"
    /\ exitCode' = 0
    /\ pc' = "done"
    /\ UNCHANGED <<ctlVars, out, otherThanVectors, vecVars, ushortVars, excVars>>

(***************************************************************************)
(* The unsigned-length example.                                            *)
(***************************************************************************)
UShortMod == 65536

\* A conversion that drops the sign.
AbsoluteValue(v) == IF v < 0 THEN 0 - v ELSE v

\* A conversion that saturates at the ends of the range.
ClampUShort(v) == IF v < 0 THEN 0 ELSE IF v >= UShortMod THEN UShortMod - 1 ELSE v

\* Conversion of an int to unsigned short: the value modulo 2^16.
ToUShort(v) == v % UShortMod

\* A 32-bit unsigned int, held as two 16-bit halves: hi * 2^16 + lo.
\* Conversion of an int to unsigned int: the value modulo 2^32.
ToUInt(v) == [hi |-> (v \div UShortMod) % UShortMod, lo |-> v % UShortMod]

\* a - b in unsigned int arithmetic: the difference modulo 2^32.
UIntMinus(a, b) ==
    [hi |-> (a.hi - b.hi - (IF a.lo < b.lo THEN 1 ELSE 0)) % UShortMod,
     lo |-> (a.lo - b.lo) % UShortMod]

\* std::cout << u for an unsigned int: its decimal digits.
RECURSIVE Decimal(_)
Decimal(u) ==
    LET mid == (u.hi % 10) * UShortMod + u.lo
        q == [hi |-> u.hi \div 10, lo |-> mid \div 10]
    IN  IF q.hi = 0 /\ q.lo = 0 THEN <<mid % 10>>
        ELSE Decimal(q) \o <<mid % 10>>

Prime5 == <<2, 3, 5, 7, 11>>

(***************************************************************************)
(* The introduction-to-vector example.                                     *)
(***************************************************************************)
Primes4 == <<2, 3, 5, 7>>

\* The initializer lists of mode "any": up to MaxList values.
ListValues == {3, 10}
InitLists == UNION {[1..m -> ListValues] : m \in 0..MaxList}

\* What the initialization examples are given: 10 and {10} in main.
GivenVectors ==
    {[count |-> k, list |-> l] : k \in 0..MaxCount, l \in InitLists}
GivenMain == [count |-> 10, list |-> <<10>>]

VIRunning(at) == prog = "vector_intro" /\ status = "running" /\ pc = at

\* std::cout << primes[0]; std::cout << primes[1]
VISubscript ==
    /\ VIRunning("subscript")
    /\ out' = out \o <<Labelled("element", vec.elems[1]), Labelled("element", vec.elems[2])>>
    /\ lastRead' = vec.elems[2]
    /\ idx' = 5
    /\ pc' = "subscript_out_of_bounds"
    /\ UNCHANGED <<ctlVars, status, exitCode, otherThanVectors, vec, ushortVars, excVars>>

\* std::cout << primes[5], primes[6], primes[7], primes[8]: undefined
\* behaviour, each read yields whatever the storage holds or faults.
VISubscriptOutOfBounds ==
    /\ VIRunning("subscript_out_of_bounds")
    /\ \E fault \in Faults : \E g \in Garbage :
          LET r == Subscript(vec, idx, fault, g) IN
              IF r.crash
              THEN /\ status' = "crashed"
                   /\ UNCHANGED <<pc, out, lastRead, idx>>
              ELSE /\ lastRead' = r.value
                   /\ out' = Append(out, Labelled("element", r.value))
                   /\ idx' = idx + 1
                   /\ pc' = IF idx = 8 THEN "initialize" ELSE pc
                   /\ UNCHANGED status
    /\ UNCHANGED <<ctlVars, exitCode, otherThanVectors, vec, ushortVars, excVars>>

\* std::vector<int> v2(10); v3{10}; v4 = {10}; v5({10}); v6{}; v7 = {}
VIInitialize ==
    /\ VIRunning("initialize")
    /\ locals' = [v2 |-> VectorOfCount(given.count),
                  v3 |-> VectorOf(given.list),
                  v4 |-> VectorOf(given.list),
                  v5 |-> VectorOf(given.list),
                  v6 |-> VectorOf(<< >>),
                  v7 |-> VectorOf(<< >>)]
    /\ pc' = "print_sizes"
    /\ UNCHANGED <<ctlVars, status, exitCode, out, closures, opCount, callCount, lastOp,
                   vecVars, ushortVars, excVars, heapVars, stackVars, cinVars>>

\* std::cout << v2.size() ... << v7.size()
VIPrintSizes ==
    /\ VIRunning("print_sizes")
    /\ out' = out \o <<Labelled("v2", Len(locals.v2.elems)), Labelled("v3", Len(locals.v3.elems)),
                       Labelled("v4", Len(locals.v4.elems)), Labelled("v5", Len(locals.v5.elems)),
                       Labelled("v6", Len(locals.v6.elems)), Labelled("v7", Len(locals.v7.elems))>>
    /\ pc' = "return"
    /\ UNCHANGED <<ctlVars, status, exitCode, otherThanVectors, vecVars, ushortVars, excVars>>

\* return 0
VIReturn ==
    /\ VIRunning("return")
    /\ status' = "done"
    /\ exitCode' = 0
    /\ pc' = "done"
    /\ UNCHANGED <<ctlVars, out, otherThanVectors, vecVars, ushortVars, excVars>>

(***************************************************************************)
(* The statements of the unsigned-length example.                          *)
(***************************************************************************)
ULRunning(at) == prog = "unsigned_length" /\ status = "running" /\ pc = at

\* unsigned short x{65535}; x += 1; std::cout << x
ULIncrement ==
    /\ ULRunning("x_inc")
    /\ x' = ToUShort(x + 1)
    /\ out' = Append(out, Labelled("x", x'))
    /\ pc' = "x_dec"
    /\ UNCHANGED <<ctlVars, status, exitCode, otherThanVectors, vecVars, n, counter, excVars>>

\* x = 0; x -= 1; std::cout << x
ULDecrement ==
    /\ ULRunning("x_dec")
    /\ x' = ToUShort(0 - 1)
    /\ out' = Append(out, Labelled("x", x'))
    /\ pc' = "x_neg"
    /\ UNCHANGED <<ctlVars, status, exitCode, otherThanVectors, vecVars, n, counter, excVars>>

\* x = -80; std::cout << x
ULNegative ==
    /\ ULRunning("x_neg")
    /\ x' = ToUShort(-80)
    /\ out' = Append(out, Labelled("x", x'))
    /\ pc' = "u_minus_s"
    /\ UNCHANGED <<ctlVars, status, exitCode, otherThanVectors, vecVars, n, counter, excVars>>

\* unsigned int u{2}; signed int s{3}; std::cout << u - s: s is converted to
\* unsigned int and the subtraction is unsigned.
ULMixed ==
    /\ ULRunning("u_minus_s")
    /\ out' = Append(out, Labelled("u_minus_s",
                                   Decimal(UIntMinus(ToUInt(given.u), ToUInt(given.s)))))
    /\ pc' = "call_doSomethingNTimes"
    /\ UNCHANGED <<ctlVars, status, exitCode, otherThanVectors, vecVars, ushortVars, excVars>>

\* doSomethingNTimes(-1): the argument is converted to the unsigned short
\* parameter n; int counter = 0; int i = 0.  In mode "any" the argument is
\* any of 0..MaxTimes or of -65536..(-65536 + MaxTimes).
ULCall ==
    /\ ULRunning("call_doSomethingNTimes")
    /\ n' = ToUShort(given.arg)
    /\ counter' = 0
    /\ idx' = 0
    /\ pc' = "loop"
    /\ UNCHANGED <<ctlVars, status, exitCode, out, otherThanVectors, vec, lastRead, x, excVars>>

\* for (int i = 0; i < n; i++) counter++;  then std::cout << counter
ULLoop ==
    /\ ULRunning("loop")
    /\ IF idx < n
       THEN /\ counter' = counter + 1
            /\ idx' = idx + 1
            /\ UNCHANGED <<pc, out>>
       ELSE /\ out' = Append(out, Labelled("counter", counter))
            /\ pc' = "size"
            /\ UNCHANGED <<counter, idx>>
    /\ UNCHANGED <<ctlVars, status, exitCode, otherThanVectors, vec, lastRead, x, n, excVars>>

\* std::cout << prime.size(), std::size(prime), static_cast<int>(prime.size())
ULSize ==
    /\ ULRunning("size")
    /\ out' = out \o <<Labelled("size", Len(vec.elems)), Labelled("size", Len(vec.elems)),
                       Labelled("size", Len(vec.elems))>>
    /\ pc' = "subscript_3"
    /\ UNCHANGED <<ctlVars, status, exitCode, otherThanVectors, vecVars, ushortVars, excVars>>

\* std::cout << prime[3]; std::cout << prime[9]: the second access is
\* undefined behaviour.
ULSubscript ==
    \E at \in {"subscript_3", "subscript_9"} : \E fault \in Faults : \E g \in Garbage :
        /\ ULRunning(at)
        /\ LET r == Subscript(vec, IF at = "subscript_3" THEN 3 ELSE 9, fault, g) IN
              IF r.crash
              THEN /\ status' = "crashed"
                   /\ UNCHANGED <<pc, out, lastRead>>
              ELSE /\ lastRead' = r.value
                   /\ out' = Append(out, Labelled("element", r.value))
                   /\ pc' = IF at = "subscript_3" THEN "subscript_9" ELSE "at_3"
                   /\ UNCHANGED status
        /\ UNCHANGED <<ctlVars, exitCode, otherThanVectors, vec, idx, ushortVars, excVars>>

\* std::cout << prime.at(3) outside any try block, and prime.at(9) inside
\* the try block.  In mode "any" the index is any of 0..MaxIndex.
ULAt ==
    \E at \in {"at_3", "try_at_9"} : \E i \in {9} \cup (0..MaxIndex) :
        /\ ULRunning(at)
        /\ raised = "none"
        /\ mode = "main" => i = (IF at = "at_3" THEN 3 ELSE 9)
        /\ LET r == At(vec, i) IN
              IF r.raised # "none"
              THEN /\ raised' = r.raised
                   /\ UNCHANGED <<pc, out, lastRead>>
              ELSE /\ lastRead' = r.value
                   /\ out' = Append(out, Labelled("element", r.value))
                   /\ pc' = IF at = "at_3" THEN "try_at_9" ELSE "access_constexpr"
                   /\ UNCHANGED raised
        /\ idx' = i
        /\ UNCHANGED <<ctlVars, status, exitCode, otherThanVectors, vec, ushortVars, caught>>

\* Stack unwinding: an exception raised inside the try block enters the
\* handler catch (const std::out_of_range &e) if the handler matches; any
\* other exception reaches no handler and std::terminate ends the program.
ULUnwind ==
    /\ prog = "unsigned_length" /\ status = "running"
    /\ pc \in {"at_3", "try_at_9"}
    /\ raised # "none"
    /\ IF pc = "try_at_9" /\ Catches("out_of_range", raised)
       THEN /\ pc' = "catch"
            /\ UNCHANGED status
       ELSE /\ status' = "crashed"
            /\ UNCHANGED pc
    /\ UNCHANGED <<ctlVars, exitCode, out, otherThanVectors, vecVars, ushortVars, excVars>>

\* The handler: std::cerr << e.what(); std::cout << "Continuing...\n"
ULCatch ==
    /\ ULRunning("catch")
    /\ caught' = Append(caught, raised)
    /\ raised' = "none"
    /\ out' = Append(out, Labelled("continuing", 0))
    /\ pc' = "access_constexpr"
    /\ UNCHANGED <<ctlVars, status, exitCode, otherThanVectors, vecVars, ushortVars>>

\* The four accesses of element 3: prime[constexpr_index], prime[size_t_index],
\* prime[int_index], prime.data()[int_index].
AccessOrder == <<"access_constexpr", "access_size_t", "access_int", "access_data", "return">>

ULAccess ==
    \E k \in 1..4 : \E fault \in Faults : \E g \in Garbage :
        /\ ULRunning(AccessOrder[k])
        /\ LET r == Subscript(vec, 3, fault, g) IN
              /\ ~r.crash
              /\ lastRead' = r.value
              /\ out' = Append(out, Labelled(AccessOrder[k], r.value))
        /\ pc' = AccessOrder[k + 1]
        /\ UNCHANGED <<ctlVars, status, exitCode, otherThanVectors, vec, idx, ushortVars, excVars>>

\* return 0
ULReturn ==
    /\ ULRunning("return")
    /\ status' = "done"
    /\ exitCode' = 0
    /\ pc' = "done"
    /\ UNCHANGED <<ctlVars, out, otherThanVectors, vecVars, ushortVars, excVars>>

(***************************************************************************)
(* The dangling-capture example.                                           *)
(***************************************************************************)
Addresses == {"cell1"}

\* A lambda that captures n by value: the closure holds its own copy.
PrintNumberByValue(ref, h) ==
    [byRef |-> FALSE, name |-> ref, member |-> h[ref].value, delta |-> 0, prints |-> TRUE,
     wrapped |-> FALSE]

\* printNumber(const int &n) returns [&]() {... << n ...}: n is a reference
\* to the caller's object and the closure captures it by reference, so the
\* closure refers to the object ref itself.
PrintNumber(ref, h) ==
    [byRef |-> TRUE, name |-> ref, member |-> 0, delta |-> 0, prints |-> TRUE,
     wrapped |-> FALSE]

DCRunning(at) == prog = "dangling_capture" /\ status = "running" /\ pc = at

\* int *ptr{new int}: the new object holds an indeterminate value.
DCNew ==
    /\ DCRunning("new")
    /\ \E a \in Addresses : \E g \in Garbage :
          /\ ~heap[a].live
          /\ heap' = [heap EXCEPT ![a] = [live |-> TRUE, value |-> g]]
          /\ ptr' = a
    /\ pc' = "assign"
    /\ UNCHANGED <<ctlVars, status, exitCode, out, closures, accesses, otherThanHeap>>

\* *ptr = 7
DCAssign ==
    /\ DCRunning("assign")
    /\ heap' = [heap EXCEPT ![ptr].value = 7]
    /\ accesses' = Append(accesses, [op |-> "write", live |-> heap[ptr].live])
    /\ pc' = "printNumber"
    /\ UNCHANGED <<ctlVars, status, exitCode, out, closures, ptr, otherThanHeap>>

\* auto sayNumber{printNumber(*ptr)}
DCPrintNumber ==
    /\ DCRunning("printNumber")
    /\ closures' = <<PrintNumber(ptr, heap)>>
    /\ pc' = "delete"
    /\ UNCHANGED <<ctlVars, status, exitCode, out, heapVars, otherThanHeap>>

\* delete ptr: the lifetime of the object ends; ptr keeps its value.
DCDelete ==
    /\ DCRunning("delete")
    /\ heap' = [heap EXCEPT ![ptr].live = FALSE]
    /\ accesses' = Append(accesses, [op |-> "delete", live |-> heap[ptr].live])
    /\ pc' = "sayNumber"
    /\ UNCHANGED <<ctlVars, status, exitCode, out, closures, ptr, otherThanHeap>>

\* sayNumber(), four times: the body reads n.  Reading through a reference
\* to an object whose lifetime has ended is undefined: the build prints what
\* the storage holds (the old value or anything else) or faults.
DCSayNumber ==
    /\ DCRunning("sayNumber")
    /\ Len(out) < 4
    /\ LET c == closures[1] IN
          IF ~c.byRef
          THEN /\ out' = Append(out, Printed(1, c.member))
               /\ accesses' = Append(accesses, [op |-> "read_member", live |-> TRUE])
               /\ UNCHANGED status
          ELSE /\ accesses' = Append(accesses, [op |-> "read", live |-> heap[c.name].live])
               /\ \E fault \in Faults : \E g \in Garbage \cup {heap[c.name].value} :
                     IF heap[c.name].live
                     THEN /\ out' = Append(out, Printed(1, heap[c.name].value))
                          /\ UNCHANGED status
                     ELSE IF fault = "segfault"
                     THEN /\ status' = "crashed"
                          /\ UNCHANGED out
                     ELSE /\ out' = Append(out, Printed(1, g))
                          /\ UNCHANGED status
    /\ UNCHANGED <<ctlVars, pc, exitCode, closures, heap, ptr, otherThanHeap>>

\* return 0
DCReturn ==
    /\ DCRunning("sayNumber")
    /\ Len(out) = 4
    /\ status' = "done"
    /\ exitCode' = 0
    /\ pc' = "done"
    /\ UNCHANGED <<ctlVars, out, closures, heapVars, otherThanHeap>>

(***************************************************************************)
(* The dangling-pointer example.                                           *)
(***************************************************************************)
DPRunning(at) == prog = "dangling_pointer" /\ status = "running" /\ pc = at

\* A main that returns right after the first delete.
DPReturnsAfterDelete(at) ==
    IF at = "new" THEN "assign" ELSE IF at = "assign" THEN "delete" ELSE "return"

\* The statements of main, in source order.
DPAfter(at) ==
    IF at = "new" THEN "assign"
    ELSE IF at = "assign" THEN "delete"
    ELSE IF at = "delete" THEN "dereference"
    ELSE IF at = "dereference" THEN "delete_again"
    ELSE "return"

\* int *ptr{new int}
DPNew ==
    /\ DPRunning("new")
    /\ \E a \in Addresses : \E g \in Garbage :
          /\ ~heap[a].live
          /\ heap' = [heap EXCEPT ![a] = [live |-> TRUE, value |-> g]]
          /\ ptr' = a
    /\ pc' = DPAfter(pc)
    /\ UNCHANGED <<ctlVars, status, exitCode, out, closures, accesses, otherThanHeap>>

\* *ptr = 7
DPAssign ==
    /\ DPRunning("assign")
    /\ heap' = [heap EXCEPT ![ptr].value = 7]
    /\ accesses' = Append(accesses, [op |-> "write", live |-> heap[ptr].live])
    /\ pc' = DPAfter(pc)
    /\ UNCHANGED <<ctlVars, status, exitCode, out, closures, ptr, otherThanHeap>>

\* delete ptr, the first and the second time.  ptr keeps its value.  Deleting
\* an object whose lifetime has ended is undefined: the allocator aborts the
\* program or the run goes on.
DPDelete ==
    \E at \in {"delete", "delete_again"} : \E fault \in {"abort", "none"} :
        /\ DPRunning(at)
        /\ accesses' = Append(accesses, [op |-> "delete", live |-> heap[ptr].live])
        /\ heap' = [heap EXCEPT ![ptr].live = FALSE]
        /\ IF ~heap[ptr].live /\ fault = "abort"
           THEN status' = "crashed" /\ UNCHANGED pc
           ELSE pc' = DPAfter(pc) /\ UNCHANGED status
        /\ UNCHANGED <<ctlVars, exitCode, out, closures, ptr, otherThanHeap>>

\* std::cout << *ptr: reading an object whose lifetime has ended is
\* undefined: the build prints what the storage holds (the old value or
\* anything else) or faults.
DPDereference ==
    /\ DPRunning("dereference")
    /\ accesses' = Append(accesses, [op |-> "read", live |-> heap[ptr].live])
    /\ \E fault \in Faults : \E g \in Garbage \cup {heap[ptr].value} :
          IF heap[ptr].live
          THEN /\ out' = Append(out, Printed(0, heap[ptr].value))
               /\ pc' = DPAfter(pc) /\ UNCHANGED status
          ELSE IF fault = "segfault"
          THEN /\ status' = "crashed"
               /\ UNCHANGED <<out, pc>>
          ELSE /\ out' = Append(out, Printed(0, g))
               /\ pc' = DPAfter(pc) /\ UNCHANGED status
    /\ UNCHANGED <<ctlVars, exitCode, closures, heap, ptr, otherThanHeap>>

\* main ends without a return statement: it returns 0.
DPReturn ==
    /\ DPRunning("return")
    /\ status' = "done"
    /\ exitCode' = 0
    /\ pc' = "done"
    /\ UNCHANGED <<ctlVars, out, closures, heapVars, otherThanHeap>>

(***************************************************************************)
(* The stack-overflow example.  A frame is an active call: the function    *)
(* and the position in its body.                                           *)
(***************************************************************************)
Frame(fn, at) == [fn |-> fn, at |-> at]

\* A recursion guard that is a real base condition.
GuardBelowThree(c) == c < 3

\* A guard that already fails in the first call.
GuardAboveOne(c) == c > 1

\* if (g_counter > 0)
RecursionGuard(c) == c > 0

\* The eat_stack calls that are active.
ActiveCalls(st) == Cardinality({k \in 1..Len(st) : st[k].fn = "eat_stack"})

Top(st) == st[Len(st)]

\* The stack with the position of the top frame changed.
Goto(st, at) == [st EXCEPT ![Len(st)].at = at]

SORunning == prog = "stack_overflow" /\ status = "running" /\ Len(stack) > 0

\* eat_stack() is called, from main or from eat_stack: the frame of the new
\* call is pushed.  The caller continues after the call once it returns.
EatStackCall ==
    /\ SORunning
    /\ Top(stack).at = "call"
    /\ stack' = Append(Goto(stack, "after_call"), Frame("eat_stack", "print"))
    /\ UNCHANGED <<ctlVars, pc, status, exitCode, out, g_counter, stackLimit, otherThanStack>>

\* One statement of the function on top of the stack.
\* eat_stack: std::cout << ++g_counter; if (g_counter > 0) eat_stack();
\*            std::cout << "hi"; return.
\* main: once eat_stack() has returned, main ends and returns 0.
\* The output statement needs more stack than the frame of eat_stack itself:
\* in the call that has no room left for it, g_counter is incremented and
\* the process is terminated before the line is written.
StackStep ==
    /\ SORunning
    /\ Top(stack).at # "call"
    /\ LET f == Top(stack) IN
          CASE f.fn = "eat_stack" /\ f.at = "print" ->
                  /\ g_counter' = g_counter + 1
                  /\ IF ActiveCalls(stack) <= stackLimit
                     THEN /\ out' = Append(out, Labelled("g_counter", g_counter + 1))
                          /\ stack' = Goto(stack, "guard")
                          /\ UNCHANGED status
                     ELSE /\ status' = "crashed"
                          /\ UNCHANGED <<out, stack>>
                  /\ UNCHANGED <<exitCode, pc>>
            [] f.fn = "eat_stack" /\ f.at = "guard" ->
                  /\ stack' = Goto(stack, IF RecursionGuard(g_counter) THEN "call" ELSE "after_call")
                  /\ UNCHANGED <<status, exitCode, pc, out, g_counter>>
            [] f.fn = "eat_stack" /\ f.at = "after_call" ->
                  /\ out' = Append(out, Labelled("hi", 0))
                  /\ stack' = SubSeq(stack, 1, Len(stack) - 1)
                  /\ UNCHANGED <<status, exitCode, pc, g_counter>>
            [] f.fn = "main" /\ f.at = "after_call" ->
                  /\ status' = "done"
                  /\ exitCode' = 0
                  /\ pc' = "done"
                  /\ stack' = << >>
                  /\ UNCHANGED <<out, g_counter>>
    /\ UNCHANGED <<ctlVars, stackLimit, otherThanStack>>

(***************************************************************************)
(* std::cin.  The stream is the characters not yet read, the failbit and   *)
(* the eofbit.  operator>>(int&) follows the extraction steps the basics   *)
(* example lists.                                                          *)
(***************************************************************************)
IntMax == 2147483647
IntMin == -2147483647 - 1

DigitChars == <<"0", "1", "2", "3", "4", "5", "6", "7", "8", "9">>
Digits == {DigitChars[k] : k \in 1..10}
DigitValue(c) == (CHOOSE k \in 1..10 : DigitChars[k] = c) - 1
\* Only the space separates tokens.
IsBlank(c) == c = " "

\* The vertical tab, written as the character itself.
VerticalTab == ""

\* std::isspace in the classic locale: space, newline, horizontal tab,
\* carriage return, form feed and vertical tab.
IsSpace(c) == c \in {" ", "\n", "\t", "\r", "\f", VerticalTab}

\* The characters of b after its leading whitespace.
RECURSIVE SkipSpace(_)
SkipSpace(b) ==
    IF b # << >> /\ IsSpace(Head(b)) THEN SkipSpace(Tail(b)) ELSE b

\* The number of leading characters of b that are digits.
RECURSIVE DigitRun(_)
DigitRun(b) ==
    IF b # << >> /\ Head(b) \in Digits THEN 1 + DigitRun(Tail(b)) ELSE 0

\* The magnitude the digits ds denote, accumulated from acc: a number up to
\* IntMax, -1 for exactly IntMax + 1 and -2 for anything larger.
RECURSIVE Magnitude(_, _)
Magnitude(ds, acc) ==
    IF ds = << >> THEN acc
    ELSE LET d == DigitValue(Head(ds))
             next == IF acc < 0 THEN -2
                     ELSE IF acc < 214748364 \/ (acc = 214748364 /\ d <= 7)
                          THEN acc * 10 + d
                     ELSE IF acc = 214748364 /\ d = 8 THEN -1
                     ELSE -2
         IN  \* the accumulator is computed once per digit
             CHOOSE m \in {Magnitude(Tail(ds), a) : a \in {next}} : TRUE

\* The result of an extraction: the stream afterwards, the value of the
\* target afterwards, why the extraction ended as it did, and the number of
\* characters it removed from the stream.
Extracted(stream, value, why, before) ==
    [cin |-> stream, value |-> value, why |-> why,
     consumed |-> Len(before.buf) - Len(stream.buf)]

\* A failed extraction that leaves the stream in a good state.
StaysGood(rest) == [buf |-> rest, fail |-> FALSE, eof |-> rest = << >>]

\* The stream after a failed extraction: the failbit is set, so that any
\* future extraction fails immediately.
Failed(rest) == [buf |-> rest, fail |-> TRUE, eof |-> rest = << >>]

\* std::cin >> target for an int target.
\*  1. If the stream is not in a good state no extraction is attempted: the
\*     failbit is set and the target keeps its value.
\*  2. Leading whitespace is discarded.
\*  3. If the stream is now at its end, eofbit and failbit are set and the
\*     target keeps its value.
\*  4. An optional sign and then as many digits as there are get extracted.
\*     With no digit the extraction fails: the target is assigned 0 and the
\*     failbit is set.  A number out of the range of int also fails: the
\*     target is assigned the nearest int.
\*  Reaching the end of the stream while reading sets the eofbit.
ExtractInt(stream, target) ==
    LET b == SkipSpace(stream.buf)
        signed == b # << >> /\ Head(b) \in {"+", "-"}
        negative == signed /\ Head(b) = "-"
        body == IF signed THEN Tail(b) ELSE b
        len == DigitRun(body)
        rest == SubSeq(body, len + 1, Len(body))
        m == Magnitude(SubSeq(body, 1, len), 0)
        atEnd == rest = << >>
    IN  IF stream.fail \/ stream.eof
        THEN Extracted([stream EXCEPT !.fail = TRUE], target, "bad_state", stream)
        ELSE IF b = << >>
        THEN Extracted(Failed(<< >>), target, "eof", stream)
        ELSE IF len = 0
        THEN Extracted(Failed(rest), 0, "invalid", stream)
        ELSE IF m = -2 \/ (m = -1 /\ ~negative)
        THEN Extracted(Failed(rest), IF negative THEN IntMin ELSE IntMax, "range", stream)
        ELSE Extracted([buf |-> rest, fail |-> FALSE, eof |-> atEnd],
                       IF m = -1 THEN IntMin ELSE IF negative THEN 0 - m ELSE m,
                       "ok", stream)

\* History record of an extraction into the variable name.
Extraction(name, r, before) ==
    [target |-> name, why |-> r.why, before |-> before, value |-> r.value,
     consumed |-> r.consumed]

\* value * 2 in int arithmetic.  Signed overflow is undefined: the build
\* produces the wrapped value or anything else.
Times2(v) ==
    IF v > 1073741823 THEN {(v - 1073741824) * 2 + IntMin} \cup Garbage
    ELSE IF v < -1073741824 THEN {((v + 1073741824) * 2 + IntMax) + 1} \cup Garbage
    ELSE {2 * v}

\* a + b in int arithmetic, with the same treatment of overflow.
Plus(a, b) ==
    IF b > 0 /\ a > IntMax - b THEN {(a + IntMin) + (b + IntMin)} \cup Garbage
    ELSE IF b < 0 /\ a < IntMin - b THEN {(a - IntMin) + (b - IntMin)} \cup Garbage
    ELSE {a + b}

(***************************************************************************)
(* The console inputs: up to MaxTokens tokens, separated by a blank or by  *)
(* a newline, with or without a final newline.                             *)
(***************************************************************************)
TokenSet ==
    { <<"7">>, <<"-", "1", "2">>, <<"x">>, <<"3", "x">>, << >>,
      <<"9", "9", "9", "9", "9", "9", "9", "9", "9", "9">>,
      <<"2", "1", "4", "7", "4", "8", "3", "6", "4", "7">> }

RECURSIVE JoinTokens(_, _)
JoinTokens(ts, sep) ==
    IF Len(ts) = 1 THEN ts[1]
    ELSE ts[1] \o <<sep>> \o JoinTokens(Tail(ts), sep)

InputsUpTo(k) ==
    { JoinTokens(ts, sep) \o last :
        ts \in UNION {[1..m -> TokenSet] : m \in 1..k},
        sep \in {" ", "\n"},
        last \in {<< >>, <<"\n">>} }

\* Inputs with a token for every extraction of main: Extractions("io_basics")
\* tokens, each a number or a word that is no number.
FullInputs ==
    { JoinTokens(ts, sep) \o last :
        ts \in [1..5 -> {<<"7">>, <<"-", "1", "2">>, <<"x">>}],
        sep \in {" ", "\n", "\t"},
        last \in {<< >>, <<"\n">>} }

\* The inputs of the lambda-captures example: a word to search for, a width
\* and a height.
CaptureTokens ==
    { <<"a", "n">>, <<"n", "u">>, <<"m", "o">>, <<"5">>, <<"8">>, << >>,
      <<"2", "1", "4", "7", "4", "8", "3", "6", "4", "7">> }

CaptureInputsUpTo(k) ==
    { JoinTokens(ts, sep) \o last :
        ts \in UNION {[1..m -> CaptureTokens] : m \in 1..k},
        sep \in {" ", "\n"},
        last \in {<< >>, <<"\n">>} }

ConsoleRunning(p, at) == prog = p /\ status = "running" /\ pc = at

\* The console programs' common pieces: one extraction statement, and the
\* return from main.
ReadInto(name) ==
    \E r \in {ExtractInt(cin, locals[name])} :
        /\ cin' = r.cin
        /\ locals' = [locals EXCEPT ![name] = r.value]
        /\ extracts' = Append(extracts, Extraction(name, r, locals[name]))

\* A main that reports the state of std::cin as its exit code.
ReturnsStreamState ==
    /\ status' = "done"
    /\ exitCode' = IF cin.fail THEN 1 ELSE 0
    /\ pc' = "done"

Return0 ==
    /\ status' = "done"
    /\ exitCode' = 0
    /\ pc' = "done"

(***************************************************************************)
(* The input/output basics example.                                        *)
(***************************************************************************)
\* int x{5}; std::cout << x; std::cout << "The value of x is " << x
IOHello ==
    /\ ConsoleRunning("io_basics", "hello")
    /\ out' = out \o <<Labelled("x", 5), Labelled("x", 5)>>
    /\ pc' = "read_y"
    /\ UNCHANGED <<ctlVars, status, exitCode, locals, cinVars, otherThanConsole>>

\* int y{}; std::cin >> y   and   int i{}; std::cin >> i   and
\* int j{}; std::cin >> j: one extraction each.
IOOrder == <<"read_y", "print_y", "read_ab", "print_ab", "read_i", "read_j", "print_ij">>
\* Every prompt stores into y.
IOTargetReusesY(at) == "y"

IOTarget(at) == IF at = "read_y" THEN "y" ELSE IF at = "read_i" THEN "i" ELSE "j"
IOAfter(at) == IF at = "read_y" THEN "print_y" ELSE IF at = "read_i" THEN "read_j" ELSE "print_ij"

IORead ==
    \E at \in {"read_y", "read_i", "read_j"} :
        /\ ConsoleRunning("io_basics", at)
        /\ ReadInto(IOTarget(at))
        /\ pc' = IOAfter(at)
        /\ UNCHANGED <<ctlVars, status, exitCode, out, otherThanConsole>>

\* int a{}; int b{}; std::cin >> a >> b: two extractions in one statement.
IOReadChained ==
    /\ ConsoleRunning("io_basics", "read_ab")
    /\ \E ra \in {ExtractInt(cin, locals["a"])} : \E rb \in {ExtractInt(ra.cin, locals["b"])} :
           /\ cin' = rb.cin
           /\ locals' = [locals EXCEPT !["a"] = ra.value, !["b"] = rb.value]
           /\ extracts' = extracts \o <<Extraction("a", ra, locals["a"]),
                                        Extraction("b", rb, locals["b"])>>
    /\ pc' = "print_ab"
    /\ UNCHANGED <<ctlVars, status, exitCode, out, otherThanConsole>>

\* std::cout << "You entered " << ...
IOPrint ==
    \E at \in {"print_y", "print_ab", "print_ij"} :
        /\ ConsoleRunning("io_basics", at)
        /\ out' = out \o
              (IF at = "print_y" THEN <<Labelled("y", locals["y"])>>
               ELSE IF at = "print_ab"
               THEN <<Labelled("a", locals["a"]), Labelled("b", locals["b"])>>
               ELSE <<Labelled("i", locals["i"]), Labelled("j", locals["j"])>>)
        /\ pc' = IF at = "print_y" THEN "read_ab"
                 ELSE IF at = "print_ab" THEN "read_i" ELSE "return"
        /\ UNCHANGED <<ctlVars, status, exitCode, locals, cinVars, otherThanConsole>>

(***************************************************************************)
(* The function-return-values example and the function-parameters example. *)
(***************************************************************************)
\* A sum that subtracts.
addSubtracts(a, b) == a - b

\* int add(int x, int y) { return x + y; }
add(a, b) == a + b

\* int multiply(int x, int y) { return x * y; }
multiply(a, b) == a * b

\* int add(int x, int y) { return x + y; } of the forward-declaration example
addForward(a, b) == a + b

\* getValueFromUser(): int input{}; std::cin >> input; return input.  The
\* caller initialises num, or the parameter value of printDouble, with it.
GetValueFromUser ==
    \E p \in {"return_values", "function_parameters"} :
        /\ ConsoleRunning(p, "getValueFromUser")
        /\ ReadInto("input")
        /\ pc' = "print_double"
        /\ UNCHANGED <<ctlVars, status, exitCode, out, otherThanConsole>>

\* std::cout << num << " doubled is: " << num * 2
PrintDouble ==
    \E p \in {"return_values", "function_parameters"} :
        /\ ConsoleRunning(p, "print_double")
        /\ \E d \in Times2(locals["input"]) :
              out' = out \o <<Labelled("value", locals["input"]), Labelled("doubled", d)>>
        /\ pc' = IF p = "return_values" THEN "return" ELSE "math"
        /\ UNCHANGED <<ctlVars, status, exitCode, locals, cinVars, otherThanConsole>>

\* auto x = int{2}; auto y = int{3};
\* std::cout << x << " + " << y << " = " << add(x, y);
\* std::cout << x << " * " << y << " = " << multiply(x, y);
\* In mode "any" the arguments are any two of Args.
Args == (0 - MaxArg)..MaxArg

MathExamples ==
    /\ ConsoleRunning("function_parameters", "math")
    /\ \E ax \in Args : \E ay \in Args :
          /\ mode = "main" => ax = 2 /\ ay = 3
          /\ locals' = [locals EXCEPT !["x"] = ax, !["y"] = ay]
          /\ out' = out \o <<Labelled("x", ax), Labelled("y", ay),
                             Labelled("sum", add(ax, ay)),
                             Labelled("x", ax), Labelled("y", ay),
                             Labelled("product", multiply(ax, ay))>>
    /\ pc' = "doSomething"
    /\ UNCHANGED <<ctlVars, status, exitCode, cinVars, otherThanConsole>>

\* doSomething(2): prints a line and ignores its parameter.
DoSomething ==
    /\ ConsoleRunning("function_parameters", "doSomething")
    /\ out' = Append(out, Labelled("doSomething", 0))
    /\ pc' = "return"
    /\ UNCHANGED <<ctlVars, status, exitCode, locals, cinVars, otherThanConsole>>

\* std::cout << "The sum of 3 and 4 is: " << add(3, 4)
ForwardDeclared ==
    /\ ConsoleRunning("forward_declaration", "print_sum")
    /\ out' = Append(out, Labelled("sum", addForward(3, 4)))
    /\ pc' = "return"
    /\ UNCHANGED <<ctlVars, status, exitCode, locals, cinVars, otherThanConsole>>

(***************************************************************************)
(* The two-value sum example.                                              *)
(***************************************************************************)
\* int x{getValueFromUser()}; int y{getValueFromUser()}: each call reads into
\* its own int input{} and the caller's variable is initialised with the
\* value returned.
SumGetValue ==
    \E at \in {"read_x", "read_y"} :
        /\ ConsoleRunning("two_value_sum", at)
        /\ \E name \in {IF at = "read_x" THEN "x" ELSE "y"} : \E r \in {ExtractInt(cin, 0)} :
               /\ cin' = r.cin
               /\ locals' = [locals EXCEPT ![name] = r.value]
               /\ extracts' = Append(extracts, Extraction(name, r, 0))
        /\ pc' = IF at = "read_x" THEN "read_y" ELSE "print_sum"
        /\ UNCHANGED <<ctlVars, status, exitCode, out, otherThanConsole>>

\* std::cout << x << " + " << y << " = " << x + y
SumPrint ==
    /\ ConsoleRunning("two_value_sum", "print_sum")
    /\ \E t \in Plus(locals["x"], locals["y"]) :
          out' = out \o <<Labelled("x", locals["x"]), Labelled("y", locals["y"]),
                          Labelled("sum", t)>>
    /\ pc' = "return"
    /\ UNCHANGED <<ctlVars, status, exitCode, locals, cinVars, otherThanConsole>>

(***************************************************************************)
(* The function-pointers example.  A function pointer or std::function      *)
(* holds the function it refers to; an address written to std::cout is      *)
(* recorded as the name of the function that lives there.                   *)
(***************************************************************************)
\* int foo() { return 5; }
foo == 5

\* int goo() { return 6; }
goo == 6

\* double square(double x) { return x * x; }
square(v) == v * v

\* int take_int_return_int(int x) { return x; }
take_int_return_int(v) == v

\* transform_function(x): the call of the callback.
ApplyCallback(cb, v) == IF cb = "square" THEN square(v) ELSE take_int_return_int(v)

\* A default argument that names the other one-argument function.
DefaultTakesInt(fn) == "take_int_return_int"

\* The default argument of the callback parameter of transform, transform2
\* and transform3: = square in all three declarations.
DefaultCallback(fn) == "square"

\* transform(x, cb), transform2(x, cb), transform3(x, cb); cb is "omitted"
\* when the call leaves the callback out and the default argument is used.
Transform(fn, v, cb) ==
    ApplyCallback(IF cb = "omitted" THEN DefaultCallback(fn) ELSE cb, v)

\* The statements that print a transformed y.
FPTransforms ==
    [transform |-> [fn |-> "transform", cb |-> "square", next |-> "transform_default"],
     transform_default |-> [fn |-> "transform", cb |-> "omitted", next |-> "transform2"],
     transform2 |-> [fn |-> "transform2", cb |-> "omitted", next |-> "fp4_init"],
     transform3 |-> [fn |-> "transform3", cb |-> "omitted", next |-> "fp6_init"]]

\* fp(): the call through the pointer returns what the function it refers
\* to returns.
CallThrough(fn) == IF fn = "foo" THEN foo ELSE goo

\* The statements that make a pointer refer to a function:
\* int (*my_function_pointer1)(){&foo}; my_function_pointer2 = &goo;
\* int (*fp1)(int){&take_int_return_int}; double (*fp2)(){&return_double};
\* int (*fp3)(int){take_int_return_int}; vptr pi{name_conflict};
\* std::function<int()> fp4{&foo}; fp4 = &goo; std::function fp5{&foo};
\* auto fp6{&foo}.
FPBindings ==
    [p1_init |-> [var |-> "my_function_pointer1", fn |-> "foo", next |-> "p2_assign"],
     p2_assign |-> [var |-> "my_function_pointer2", fn |-> "goo", next |-> "bool_p1"],
     fp1_init |-> [var |-> "fp1", fn |-> "take_int_return_int", next |-> "fp2_init"],
     fp2_init |-> [var |-> "fp2", fn |-> "return_double", next |-> "fp3_init"],
     fp3_init |-> [var |-> "fp3", fn |-> "take_int_return_int", next |-> "discarded_calls"],
     pi_init |-> [var |-> "pi", fn |-> "name_conflict(int)", next |-> "pi_call"],
     fp4_init |-> [var |-> "fp4", fn |-> "foo", next |-> "fp4_assign"],
     fp4_assign |-> [var |-> "fp4", fn |-> "goo", next |-> "fp4_call"],
     fp5_init |-> [var |-> "fp5", fn |-> "foo", next |-> "fp5_call"],
     fp6_init |-> [var |-> "fp6", fn |-> "foo", next |-> "fp6_call"]]

\* The statements that print the result of a call through a pointer.
FPCalls ==
    [fp4_call |-> [var |-> "fp4", next |-> "fp5_init"],
     fp5_call |-> [var |-> "fp5", next |-> "transform3"],
     fp6_call |-> [var |-> "fp6", next |-> "return"]]

\* std::cout << pointer: a function pointer is written as a bool, 1 unless
\* it is null.
AsBool(ptrTo) == IF ptrTo = "none" THEN 0 ELSE 1

\* The statements of the first part of main that write a pointer:
\* reinterpret_cast<void *>(foo), the two pointers as bools, and the two
\* pointers cast to void *.
FPPointerPrints ==
    [address_foo |-> [var |-> "", cast |-> TRUE, next |-> "print_x"],
     bool_p1 |-> [var |-> "my_function_pointer1", cast |-> FALSE, next |-> "bool_p2"],
     bool_p2 |-> [var |-> "my_function_pointer2", cast |-> FALSE, next |-> "address_p1"],
     address_p1 |-> [var |-> "my_function_pointer1", cast |-> TRUE, next |-> "address_p2"],
     address_p2 |-> [var |-> "my_function_pointer2", cast |-> TRUE, next |-> "fp1_init"]]

\* auto x = foo()
FPCallFoo ==
    /\ prog = "function_pointers" /\ status = "running"
    /\ pc = "x_init"
    /\ locals' = [locals EXCEPT !["x"] = foo]
    /\ pc' = "address_foo"
    /\ UNCHANGED <<ctlVars, status, exitCode, out, cinVars, otherThanConsole>>

\* std::cout << reinterpret_cast<void *>(p) or std::cout << p
FPPrintPointer ==
    /\ prog = "function_pointers" /\ status = "running"
    /\ pc \in DOMAIN FPPointerPrints
    /\ \E s \in {FPPointerPrints[pc]} :
       \E ptrTo \in {IF s.var = "" THEN "foo" ELSE locals[s.var]} :
          /\ out' = Append(out, IF s.cast THEN Labelled("address", ptrTo)
                                 ELSE Labelled(s.var, AsBool(ptrTo)))
          /\ pc' = s.next
    /\ UNCHANGED <<ctlVars, status, exitCode, locals, cinVars, otherThanConsole>>

\* std::cout << x
FPPrintX ==
    /\ prog = "function_pointers" /\ status = "running"
    /\ pc = "print_x"
    /\ out' = Append(out, Labelled("x", locals["x"]))
    /\ pc' = "p1_init"
    /\ UNCHANGED <<ctlVars, status, exitCode, locals, cinVars, otherThanConsole>>

\* (*fp1)(2); (*fp2)(); fp1(2); fp2(); if (fp1) { fp1(2); }: the functions
\* called write nothing and their results are discarded.
FPDiscardedCalls ==
    /\ prog = "function_pointers" /\ status = "running"
    /\ pc = "discarded_calls"
    /\ locals["fp1"] # "none" /\ locals["fp2"] # "none"
    /\ pc' = "pi_init"
    /\ UNCHANGED <<ctlVars, status, exitCode, out, locals, cinVars, otherThanConsole>>

\* pi(1) and static_cast<void (*)(int)>(name_conflict)(1): both resolve to
\* void name_conflict(int x), which writes x.
FPNameConflict ==
    /\ prog = "function_pointers" /\ status = "running"
    /\ pc \in {"pi_call", "cast_call"}
    /\ pc = "pi_call" => locals["pi"] = "name_conflict(int)"
    /\ out' = Append(out, Labelled("name_conflict(int)", 1))
    /\ pc' = IF pc = "pi_call" THEN "cast_call" ELSE "transform"
    /\ UNCHANGED <<ctlVars, status, exitCode, locals, cinVars, otherThanConsole>>

\* std::cout << transform(y, square), transform(y), transform2(y), transform3(y)
FPTransform ==
    /\ prog = "function_pointers" /\ status = "running"
    /\ pc \in DOMAIN FPTransforms
    /\ out' = Append(out, Labelled(pc, Transform(FPTransforms[pc].fn, locals["y"],
                                                 FPTransforms[pc].cb)))
    /\ pc' = FPTransforms[pc].next
    /\ UNCHANGED <<ctlVars, status, exitCode, locals, cinVars, otherThanConsole>>

\* fp = &fn, as an initialisation or as an assignment
FPBind ==
    /\ prog = "function_pointers" /\ status = "running"
    /\ pc \in DOMAIN FPBindings
    /\ locals' = [locals EXCEPT ![FPBindings[pc].var] = FPBindings[pc].fn]
    /\ pc' = FPBindings[pc].next
    /\ UNCHANGED <<ctlVars, status, exitCode, out, cinVars, otherThanConsole>>

\* std::cout << "Called foo() using ..."; std::cout << fp()
FPCall ==
    /\ prog = "function_pointers" /\ status = "running"
    /\ pc \in DOMAIN FPCalls
    /\ out' = Append(out, Labelled(FPCalls[pc].var, CallThrough(locals[FPCalls[pc].var])))
    /\ pc' = FPCalls[pc].next
    /\ UNCHANGED <<ctlVars, status, exitCode, locals, cinVars, otherThanConsole>>

\* main ends without a return statement: it returns 0.
FPReturn ==
    /\ prog = "function_pointers" /\ status = "running"
    /\ pc = "return"
    /\ status' = "done"
    /\ exitCode' = 0
    /\ pc' = "done"
    /\ UNCHANGED <<ctlVars, out, locals, cinVars, otherThanConsole>>

(***************************************************************************)
(* The call-stack example (main, f, g, h) and the functions example (main,  *)
(* doPrint, doA, doB): every function is a list of output statements and    *)
(* calls, and the call stack holds one frame per active call with the       *)
(* position of its next statement.                                          *)
(***************************************************************************)
\* std::cout << text
PrintLine(text) == [op |-> "print", text |-> text, fn |-> ""]

\* fn();
CallTo(fn) == [op |-> "call", text |-> "", fn |-> fn]

\* main, f, g and h of the call-stack example.
CallStackBodies ==
    [main |-> <<PrintLine("In main()..."), PrintLine("Calling f()..."), CallTo("f"),
                PrintLine("Returned to main().")>>,
     f |-> <<PrintLine("--- Pushing f()"), CallTo("g"), PrintLine("--- Popping f()")>>,
     g |-> <<PrintLine("------ Pushing g()"), CallTo("h"), PrintLine("------ Popping g()")>>,
     h |-> <<PrintLine("--------- Pushing h()"), PrintLine("--------- Popping h()")>>]

\* doPrint, doB, doA and main of the functions example.
FunctionsBodies ==
    [doPrint |-> <<PrintLine("    In doPrint()")>>,
     doB |-> <<PrintLine("        In doB()")>>,
     doA |-> <<PrintLine("    Starting doA()"), PrintLine("    Calling doB()..."),
               CallTo("doB"), PrintLine("    Returned control to doA()"),
               PrintLine("    Ending doA()")>>,
     main |-> <<PrintLine("Starting main()"), PrintLine("Calling doPrint()..."),
                CallTo("doPrint"), PrintLine("Returned control to main()"),
                PrintLine("Calling doPrint() again..."), CallTo("doPrint"),
                PrintLine("Returned control to main()"), PrintLine("Calling doA()..."),
                CallTo("doA"), PrintLine("Returned control to main()"),
                PrintLine("Ending main()")>>]

CallPrograms == {"call_stack", "functions"}

\* The statements of the function fn of the program p.
Body(p, fn) == IF p = "call_stack" THEN CallStackBodies[fn] ELSE FunctionsBodies[fn]

\* A call that replaces the frame of its caller instead of keeping it.
JumpTo(st, fn) == Append(SubSeq(st, 1, Len(st) - 1), Frame(fn, 1))

\* fn(): the caller will continue with the statement after the call; the
\* frame of fn is pushed on top of the caller's, at its first statement.
PushCall(st, fn) == Append(Goto(st, Top(st).at + 1), Frame(fn, 1))

CallRunning == prog \in CallPrograms /\ status = "running" /\ Len(stack) > 0

\* Whether the function on top of the stack is at a statement of the kind op.
TopStatementIs(op) ==
    /\ Top(stack).at <= Len(Body(prog, Top(stack).fn))
    /\ Body(prog, Top(stack).fn)[Top(stack).at].op = op

\* The function on top of the stack writes a line.
CallPrint ==
    /\ CallRunning
    /\ TopStatementIs("print")
    /\ out' = Append(out, Labelled(Body(prog, Top(stack).fn)[Top(stack).at].text, 0))
    /\ stack' = Goto(stack, Top(stack).at + 1)
    /\ UNCHANGED <<ctlVars, pc, status, exitCode, g_counter, stackLimit, otherThanStack>>

\* The function on top of the stack calls another one.
CallFunction ==
    /\ CallRunning
    /\ TopStatementIs("call")
    /\ stack' = PushCall(stack, Body(prog, Top(stack).fn)[Top(stack).at].fn)
    /\ UNCHANGED <<ctlVars, pc, status, exitCode, out, g_counter, stackLimit, otherThanStack>>

\* The function on top of the stack reaches the end of its body: its frame
\* is popped and its caller continues; when main returns, the program ends
\* with the exit code 0.
CallReturn ==
    /\ CallRunning
    /\ Top(stack).at > Len(Body(prog, Top(stack).fn))
    /\ stack' = SubSeq(stack, 1, Len(stack) - 1)
    /\ IF Top(stack).fn = "main"
       THEN status' = "done" /\ exitCode' = 0 /\ pc' = "done"
       ELSE UNCHANGED <<status, exitCode, pc>>
    /\ UNCHANGED <<ctlVars, out, g_counter, stackLimit, otherThanStack>>

(***************************************************************************)
(* The search part and the default-capture part of the lambda-captures      *)
(* example.                                                                *)
(***************************************************************************)
\* The number of leading characters of b that are no whitespace.
RECURSIVE WordRun(_)
WordRun(b) ==
    IF b # << >> /\ ~IsSpace(Head(b)) THEN 1 + WordRun(Tail(b)) ELSE 0

\* std::cin >> target for a std::string target: the next word, up to the
\* next whitespace or the end of the input.
ExtractString(stream, target) ==
    LET b == SkipSpace(stream.buf)
        len == WordRun(b)
        rest == SubSeq(b, len + 1, Len(b))
    IN  IF stream.fail \/ stream.eof
        THEN Extracted([stream EXCEPT !.fail = TRUE], target, "bad_state", stream)
        ELSE IF b = << >>
        THEN Extracted(Failed(<< >>), target, "eof", stream)
        ELSE Extracted([buf |-> rest, fail |-> FALSE, eof |-> rest = << >>],
                       SubSeq(b, 1, len), "ok", stream)

\* The search string matched at the start of the element only.
StartsWith(str, search) ==
    Len(search) <= Len(str) /\ SubSeq(str, 1, Len(search)) = search

\* str.find(search) != std::string_view::npos
Contains(str, search) ==
    \E k \in 0..(Len(str) - Len(search)) : SubSeq(str, k + 1, k + Len(search)) = search

\* std::find_if(arr.begin(), arr.end(), [search](str) {...}): the position of
\* the first element that contains search, 0 for arr.end().
FindIf(arr, search) ==
    IF \E k \in 1..Len(arr) : Contains(arr[k], search)
    THEN CHOOSE k \in 1..Len(arr) :
            /\ Contains(arr[k], search)
            /\ \A m \in 1..(k - 1) : ~Contains(arr[m], search)
    ELSE 0

\* std::array areas{100, 25, 121, 40, 56}
Areas == <<100, 25, 121, 40, 56>>

\* Whether width * height does not fit an int.  A positive product must not
\* exceed IntMax; a negative one has a magnitude of at most IntMax + 1, which
\* is compared through the magnitude less one of its negative factor.
ProductOverflows(w, h) ==
    IF w = 0 \/ h = 0 THEN FALSE
    ELSE IF (w < 0) = (h < 0)
    THEN IF w = IntMin \/ h = IntMin THEN TRUE
         ELSE LET aw == IF w < 0 THEN 0 - w ELSE w
                  ah == IF h < 0 THEN 0 - h ELSE h
              IN  aw > IntMax \div ah
    ELSE LET neg == IF w < 0 THEN w ELSE h
             pos == IF w < 0 THEN h ELSE w
             m == 0 - (neg + 1)
         IN  m > (IntMax - (pos - 1)) \div pos

\* std::find_if(areas.begin(), areas.end(), [=](knownArea) {return width *
\* height == knownArea;}) != areas.end().  An overflowing product is
\* undefined: the search may or may not find it.
AreaKnown(w, h) ==
    IF ProductOverflows(w, h) THEN BOOLEAN
    ELSE {\E k \in 1..Len(Areas) : Areas[k] = w * h}

LCRunning(at) ==
    prog = "lambda_captures" /\ mode = "main" /\ status = "running" /\ pc = at

\* std::string search{}; std::cin >> search
LCSearch ==
    /\ LCRunning("search")
    /\ \E r \in {ExtractString(cin, locals["search"])} :
          /\ cin' = r.cin
          /\ locals' = [locals EXCEPT !["search"] = r.value]
          /\ extracts' = Append(extracts, Extraction("search", r, locals["search"]))
    /\ pc' = "find"
    /\ UNCHANGED <<ctlVars, status, exitCode, out, otherThanConsole>>

\* auto found{std::find_if(...)}; std::cout << "Not found" or "Found " << *found
LCFind ==
    /\ LCRunning("find")
    /\ out' = Append(out, Labelled("found", FindIf(locals["arr"], locals["search"])))
    /\ pc' = "main"
    /\ UNCHANGED <<ctlVars, status, exitCode, locals, cinVars, otherThanConsole>>

\* int width{}; int height{}; std::cin >> width >> height
LCReadArea ==
    /\ LCRunning("main")
    /\ opCount = Len(Script(prog))
    /\ \E rw \in {ExtractInt(cin, locals["width"])} :
       \E rh \in {ExtractInt(rw.cin, locals["height"])} :
          /\ cin' = rh.cin
          /\ locals' = [locals EXCEPT !["width"] = rw.value, !["height"] = rh.value]
          /\ extracts' = extracts \o <<Extraction("width", rw, locals["width"]),
                                       Extraction("height", rh, locals["height"])>>
    /\ pc' = "area"
    /\ UNCHANGED <<ctlVars, status, exitCode, out, otherThanConsole>>

\* foundArea with the default capture [=], then foundArea2 with the capture
\* [userArea{width * height}]; each prints whether the area is known.
LCArea ==
    \E at \in {"area", "area2"} :
        /\ LCRunning(at)
        /\ \E known \in AreaKnown(locals["width"], locals["height"]) :
              out' = Append(out, Labelled(at, IF known THEN 1 ELSE 0))
        /\ pc' = IF at = "area" THEN "area2" ELSE "return"
        /\ UNCHANGED <<ctlVars, status, exitCode, locals, cinVars, otherThanConsole>>

ConsolePrograms ==
    {"io_basics", "return_values", "function_parameters", "forward_declaration",
     "two_value_sum"}

\* return 0
ConsoleReturn ==
    \E p \in ConsolePrograms :
        /\ ConsoleRunning(p, "return")
        /\ Return0
        /\ UNCHANGED <<ctlVars, out, locals, cinVars, otherThanConsole>>

ClosuresIdle ==
    /\ locals = << >>
    /\ closures = << >>
    /\ opCount = 0
    /\ callCount = << >>
    /\ lastOp = [op |-> "none", c |-> 0, value |-> 0]

VectorIdle ==
    /\ vec = VectorOf(<< >>)
    /\ idx = 0
    /\ lastRead = 0

UShortIdle ==
    /\ x = 0
    /\ n = 0
    /\ counter = 0

ExceptionsIdle ==
    /\ raised = "none"
    /\ caught = << >>

HeapIdle ==
    /\ heap = [a \in Addresses |-> [live |-> FALSE, value |-> 0]]
    /\ ptr = "null"
    /\ accesses = << >>

StackIdle ==
    /\ g_counter = 0
    /\ stack = << >>
    /\ stackLimit = 0

ConsoleIdle ==
    /\ cin = [buf |-> << >>, fail |-> FALSE, eof |-> FALSE]
    /\ extracts = << >>

\* The console programs start with the characters the user will have typed
\* in the stream and with their value-initialised int variables.
\* The extractions main performs from std::cin.
Extractions(p) ==
    IF p = "io_basics" THEN 5
    ELSE IF p = "lambda_captures" THEN 3
    ELSE IF p = "two_value_sum" THEN 2
    ELSE IF p = "forward_declaration" THEN 0 ELSE 1

\* The tokens of an input of the program p: main never looks at what follows
\* the token after its last extraction.
TokensFor(p) ==
    IF Extractions(p) + 1 < MaxTokens THEN Extractions(p) + 1 ELSE MaxTokens

InitConsole ==
    /\ prog \in ConsolePrograms
    /\ mode \in {"main", "any"}
    /\ mode = "any" => prog = "function_parameters"
    /\ cin \in {[buf |-> b, fail |-> FALSE, eof |-> FALSE] :
                  b \in InputsUpTo(IF mode = "any" \/ prog = "forward_declaration"
                                   THEN 1 ELSE TokensFor(prog))
                        \cup (IF prog = "io_basics" THEN FullInputs ELSE {})}
    /\ extracts = << >>
    /\ locals = IF prog = "io_basics" THEN [y |-> 0, a |-> 0, b |-> 0, i |-> 0, j |-> 0]
                ELSE IF prog = "two_value_sum" THEN [x |-> 0, y |-> 0]
                ELSE IF prog = "function_parameters" THEN [input |-> 0, x |-> 0, y |-> 0]
                ELSE [input |-> 0]
    /\ pc = IF prog = "io_basics" THEN "hello"
            ELSE IF prog = "forward_declaration" THEN "print_sum"
            ELSE IF prog = "two_value_sum" THEN "read_x"
            ELSE "getValueFromUser"
    /\ closures = << >> /\ opCount = 0 /\ callCount = << >>
    /\ lastOp = [op |-> "none", c |-> 0, value |-> 0]
    /\ VectorIdle /\ UShortIdle /\ ExceptionsIdle /\ HeapIdle /\ StackIdle

\* main of the dangling-capture example starts with an empty heap.
InitDanglingCapture ==
    /\ prog \in {"dangling_capture", "dangling_pointer"}
    /\ mode = "main"
    /\ pc = "new"
    /\ HeapIdle
    /\ ClosuresIdle /\ VectorIdle /\ UShortIdle /\ ExceptionsIdle /\ StackIdle /\ ConsoleIdle

\* int g_counter{0}; main is about to call eat_stack().  The platform's
\* stack has room for some finite number of calls.
InitStackOverflow ==
    /\ prog = "stack_overflow"
    /\ mode = "main"
    /\ pc = "main"
    /\ g_counter = 0
    /\ stack = <<Frame("main", "call")>>
    /\ stackLimit \in 1..MaxStack
    /\ ClosuresIdle /\ VectorIdle /\ UShortIdle /\ ExceptionsIdle /\ HeapIdle /\ ConsoleIdle

\* auto data = std::vector<int>{2, 3, 5, 7, 11, 13, 17, 19}; in mode "any" the
\* list is any prefix of it.
InitVectorLayout ==
    /\ prog = "vector_layout"
    /\ mode \in {"main", "any"}
    /\ \E len \in 0..Len(Primes8) :
          /\ mode = "main" => len = Len(Primes8)
          /\ vec = VectorOf(SubSeq(Primes8, 1, len))
    /\ idx = 0
    /\ lastRead = 0
    /\ pc = "print_vector"
    /\ ClosuresIdle /\ UShortIdle /\ ExceptionsIdle /\ HeapIdle /\ StackIdle /\ ConsoleIdle

\* std::vector<int> primes{2, 3, 5, 7}
InitVectorIntro ==
    /\ prog = "vector_intro"
    /\ mode \in {"main", "any"}
    /\ given \in (IF mode = "main" THEN {GivenMain} ELSE GivenVectors)
    /\ vec = VectorOf(Primes4)
    /\ idx = 0
    /\ lastRead = 0
    /\ pc = "subscript"
    /\ ClosuresIdle /\ UShortIdle /\ ExceptionsIdle /\ HeapIdle /\ StackIdle /\ ConsoleIdle

\* The examples that construct everything from the literals of the source.
NothingGiven == given = << >>

InitClosures ==
    /\ prog \in ClosurePrograms
    /\ mode \in {"main", "any"} \cup (IF prog = "lambda_copy" THEN {"invoke"} ELSE {})
    /\ locals = ScriptLocals(prog)
    /\ closures \in
          IF mode = "main" THEN {<< >>}
          ELSE IF mode = "any" THEN {DefinedBy(FreeScript(prog), ScriptLocals(prog))}
          ELSE {<<c>> : c \in {DefinedBy(LambdaCopyInvokes, ScriptLocals(prog))[k] : k \in 1..3}}
    /\ opCount = 0
    /\ callCount = [k \in 1..Len(closures) |-> 0]
    /\ lastOp = [op |-> "none", c |-> 0, value |-> 0]
    /\ pc = IF prog = "lambda_captures" /\ mode = "main" THEN "search" ELSE "main"
    /\ IF prog = "lambda_captures" /\ mode = "main"
       THEN /\ cin \in {[buf |-> b, fail |-> FALSE, eof |-> FALSE] :
                          b \in CaptureInputsUpTo(TokensFor(prog))}
            /\ extracts = << >>
       ELSE ConsoleIdle
    /\ VectorIdle /\ UShortIdle /\ ExceptionsIdle /\ HeapIdle /\ StackIdle

\* unsigned short x{65535}; std::vector prime{2, 3, 5, 7, 11}
InitUnsignedLength ==
    /\ prog = "unsigned_length"
    /\ mode \in {"main", "any"}
    /\ given \in IF mode = "main" THEN {[u |-> 2, s |-> 3, arg |-> -1]}
                 ELSE {[u |-> a, s |-> b, arg |-> c] :
                         a \in 0..MaxTimes, b \in -1..MaxTimes,
                         c \in (0..MaxTimes) \cup {k - UShortMod : k \in 0..MaxTimes}}
    /\ x = 65535
    /\ n = 0
    /\ counter = 0
    /\ vec = VectorOf(Prime5)
    /\ idx = 0
    /\ lastRead = 0
    /\ pc = "x_inc"
    /\ ClosuresIdle /\ ExceptionsIdle /\ HeapIdle /\ StackIdle /\ ConsoleIdle

\* main has been entered: its frame is the only one on the stack.
InitCallStack ==
    /\ prog \in CallPrograms
    /\ mode = "main"
    /\ pc = "main"
    /\ g_counter = 0
    /\ stack = <<Frame("main", 1)>>
    /\ stackLimit = 0
    /\ ClosuresIdle /\ VectorIdle /\ UShortIdle /\ ExceptionsIdle /\ HeapIdle /\ ConsoleIdle

InitFunctionPointers ==
    /\ prog = "function_pointers"
    /\ mode \in {"main", "any"}
    /\ pc = "x_init"
    /\ locals \in {[x |-> 0, my_function_pointer1 |-> "none",
                    my_function_pointer2 |-> "none", fp1 |-> "none", fp2 |-> "none",
                    fp3 |-> "none", pi |-> "none",
                    fp4 |-> "none", fp5 |-> "none", fp6 |-> "none", y |-> v] :
                     v \in IF mode = "main" THEN {2} ELSE (0 - MaxY)..MaxY}
    /\ closures = << >> /\ opCount = 0 /\ callCount = << >>
    /\ lastOp = [op |-> "none", c |-> 0, value |-> 0]
    /\ VectorIdle /\ UShortIdle /\ ExceptionsIdle /\ HeapIdle /\ StackIdle /\ ConsoleIdle

Init ==
    /\ status = "running"
    /\ exitCode = -1
    /\ out = << >>
    /\ \/ InitClosures /\ NothingGiven
       \/ InitVectorLayout /\ NothingGiven
       \/ InitUnsignedLength
       \/ InitDanglingCapture /\ NothingGiven
       \/ InitStackOverflow /\ NothingGiven
       \/ InitConsole /\ NothingGiven
       \/ InitVectorIntro
       \/ InitFunctionPointers /\ NothingGiven
       \/ InitCallStack /\ NothingGiven

Next ==
    \/ DefineLambda
    \/ InvokeClosure
    \/ InvokeThroughMyInvoke
    \/ CopyClosure
    \/ PrintLocal
    \/ ClosureReturn
    \/ LayoutPrintVector
    \/ LayoutAddresses
    \/ LayoutPrintBefore
    \/ LayoutPushBack
    \/ LayoutPrintAfter
    \/ LayoutIterate
    \/ LayoutReturn
    \/ ULIncrement
    \/ ULDecrement
    \/ ULNegative
    \/ ULMixed
    \/ ULCall
    \/ ULLoop
    \/ ULSize
    \/ ULSubscript
    \/ ULAt
    \/ ULUnwind
    \/ ULCatch
    \/ ULAccess
    \/ ULReturn
    \/ DCNew
    \/ DCAssign
    \/ DCPrintNumber
    \/ DCDelete
    \/ DCSayNumber
    \/ DCReturn
    \/ EatStackCall
    \/ StackStep
    \/ IOHello
    \/ IORead
    \/ IOReadChained
    \/ IOPrint
    \/ GetValueFromUser
    \/ PrintDouble
    \/ MathExamples
    \/ DoSomething
    \/ ForwardDeclared
    \/ ConsoleReturn
    \/ SumGetValue
    \/ SumPrint
    \/ DPNew
    \/ DPAssign
    \/ DPDelete
    \/ DPDereference
    \/ DPReturn
    \/ FPCallFoo
    \/ FPPrintPointer
    \/ FPPrintX
    \/ FPDiscardedCalls
    \/ FPNameConflict
    \/ FPTransform
    \/ FPBind
    \/ FPCall
    \/ FPReturn
    \/ CallPrint
    \/ CallFunction
    \/ CallReturn
    \/ LCSearch
    \/ LCFind
    \/ LCReadArea
    \/ LCArea
    \/ VISubscript
    \/ VISubscriptOutOfBounds
    \/ VIInitialize
    \/ VIPrintSizes
    \/ VIReturn

Spec == Init /\ [][Next]_vars

\* The stack-overflow example alone.  The program is one thread that keeps
\* executing statements until main returns or the process is terminated.
StackInit ==
    /\ status = "running"
    /\ exitCode = -1
    /\ out = << >>
    /\ InitStackOverflow
    /\ NothingGiven

StackNext ==
    \/ EatStackCall
    \/ StackStep

StackSpec == StackInit /\ [][StackNext]_vars /\ WF_vars(StackNext)


(***************************************************************************)
(* Properties.                                                             *)
(***************************************************************************)
\* The values a closure (or main, who = 0) has printed, in order.
RECURSIVE PrintedBy(_, _)
PrintedBy(o, who) ==
    IF o = << >> THEN << >>
    ELSE IF Head(o).who = who /\ Head(o).what = "value"
         THEN <<Head(o).v>> \o PrintedBy(Tail(o), who)
         ELSE PrintedBy(Tail(o), who)

\* The values printed, whoever printed them.
Values(o) == [k \in 1..Len(o) |-> o[k].v]

\* The values printed under the label what.
RECURSIVE ValuesOf(_, _)
ValuesOf(o, what) ==
    IF o = << >> THEN << >>
    ELSE IF Head(o).what = what THEN <<Head(o).v>> \o ValuesOf(Tail(o), what)
         ELSE ValuesOf(Tail(o), what)

IsClosureOp == opCount' = opCount + 1

\* C1: in the lambda-copy example (a mutable closure capturing i by value,
\* pre-incrementing and printing it), a copy starts with the counter the
\* original has at copy time, which for the original count is the number k
\* of its invocations; every invocation increments and prints only the
\* counter of the closure invoked; the other closures and the outer i (always
\* 0) do not change; and main (call, copy, call original, call copy) prints
\* 1, 2, 2.
C1_Step ==
    /\ locals'["i"] = 0
    /\ (IsClosureOp /\ lastOp'.op = "copy") =>
          /\ Len(closures') = Len(closures) + 1
          /\ closures'[Len(closures')].member = closures[lastOp'.c].member
          /\ lastOp'.c = 1 => closures'[Len(closures')].member = callCount[1]
          /\ \A d \in 1..Len(closures) : closures'[d] = closures[d]
          /\ out' = out
    /\ (IsClosureOp /\ lastOp'.op = "call") =>
          /\ Len(closures') = Len(closures)
          /\ closures'[lastOp'.c].member = closures[lastOp'.c].member + 1
          /\ out' = Append(out, Printed(lastOp'.c, closures[lastOp'.c].member + 1))
          /\ \A d \in 1..Len(closures) : d # lastOp'.c => closures'[d] = closures[d]
    /\ (mode = "main" /\ status' = "done") => SubSeq(Values(out'), 1, 3) = <<1, 2, 2>>

C1_CopiedCounterIsIndependent ==
    [][prog = "lambda_copy" => C1_Step]_vars

\* A copy made after one call of the original, then the original called
\* twice more and the copy once: the counters are 3 and 2.
C1_Witness ==
    /\ prog = "lambda_copy"
    /\ Len(closures) >= 2
    /\ callCount[1] = 3 /\ closures[1].member = 3
    /\ callCount[2] = 1 /\ closures[2].member = 2
    /\ locals["i"] = 0

\* The closures that capture the outer variable v.
Capturing(v) == {c \in 1..Len(closures) : closures[c].name = v}

RECURSIVE SumOver(_, _)
SumOver(f, S) ==
    IF S = {} THEN 0
    ELSE LET e == CHOOSE e \in S : TRUE IN f[e] + SumOver(f, S \ {e})

\* C2: in the lambda-captures example throwBanana captures bananas by
\* reference: after n invocations in total of throwBanana and of its copies,
\* in any order, the outer variable bananas is 3 - n, every copy sees that
\* value as its captured variable, and the value an invocation computes is
\* the value of the outer variable after it; in main bananas is 1 after the
\* two invocations and that is what main prints.
C2_ReferenceCaptureSharesOneVariable ==
    prog = "lambda_captures" =>
        LET total == SumOver(callCount, Capturing("bananas")) IN
        /\ locals["bananas"] = 3 - total
        /\ \A c \in Capturing("bananas") : Captured(closures[c], locals) = 3 - total
        /\ (lastOp.op = "call" /\ lastOp.c \in Capturing("bananas")) =>
              lastOp.value = locals["bananas"]
        /\ (mode = "main" /\ opCount >= 7) => locals["bananas"] = 1
        /\ (mode = "main" /\ opCount >= 8) => PrintedBy(out, 0)[2] = 1

\* throwBanana and two copies of it, each invoked at least once.
C2_Witness ==
    /\ prog = "lambda_captures"
    /\ Cardinality(Capturing("bananas")) = 3
    /\ \A c \in Capturing("bananas") : callCount[c] >= 1
    /\ locals["bananas"] = 0

LayoutAppended ==
    prog = "vector_layout" /\ pc \in {"print_after", "addresses_after", "iterate", "return", "done"}

\* C3 as stated: the memory-layout example constructs its vector from
\* {2,3,5,7} and appends 21; after the append the length is 5 and the
\* capacity is at least 5 and a whole-number multiple of the capacity before.
C3_AsStated ==
    (prog = "vector_layout" /\ mode = "main" /\ LayoutAppended) =>
        /\ vec.elems = <<2, 3, 5, 7, 21>>
        /\ Len(vec.elems) = 5
        /\ vec.cap >= 5
        /\ vec.cap % ValuesOf(out, "capacity")[1] = 0

\* C3 amended: the memory-layout example constructs its vector from
\* {2,3,5,7,11,13,17,19} and appends 21; after the append the length is 9,
\* the elements are the old ones followed by 21, and the capacity is at least
\* 9 and a whole-number growth multiple of the capacity 8 it had before (16).
\* For every non-empty initial list of n elements the append gives length
\* n + 1 and a capacity of at least n + 1 that is a whole-number growth
\* multiple of the capacity before.
C3_AppendGrowsByAMultiple ==
    prog = "vector_layout" =>
        /\ (mode = "main" /\ pc = "print_before") => vec = VectorOf(Primes8)
        /\ (mode = "main" /\ LayoutAppended) =>
              /\ vec.elems = Primes8 \o <<21>>
              /\ Len(vec.elems) = 9
              /\ vec.cap >= 9
              /\ ValuesOf(out, "capacity")[1] = 8
              /\ vec.cap = 2 * 8
        /\ (LayoutAppended /\ ValuesOf(out, "size")[1] >= 1) =>
              LET before == ValuesOf(out, "capacity")[1] IN
              /\ Len(vec.elems) = ValuesOf(out, "size")[1] + 1
              /\ vec.elems[Len(vec.elems)] = 21
              /\ vec.cap >= Len(vec.elems)
              /\ vec.cap % before = 0
              /\ vec.cap > before

\* main has printed length 9 and capacity 16 after the append.
C3_Witness ==
    /\ prog = "vector_layout" /\ mode = "main" /\ pc = "iterate"
    /\ ValuesOf(out, "size") = <<8, 9>>
    /\ ValuesOf(out, "capacity") = <<8, 16>>

AtStatement == prog = "unsigned_length" /\ status = "running"
                  /\ pc \in {"at_3", "try_at_9"} /\ raised = "none"

\* C4: a checked access prime.at(i) on the vector of length n raises
\* out_of_range for every i >= n, i = n included, and otherwise raises
\* nothing and yields element i; in main at(3) yields 7 and at(9) raises.
C4_Step ==
    LET i == idx' IN
    /\ (i >= Len(vec.elems)) <=> (raised' = "out_of_range")
    /\ i >= Len(vec.elems) => (out' = out /\ pc' = pc)
    /\ i < Len(vec.elems) =>
          /\ raised' = "none"
          /\ lastRead' = vec.elems[i + 1]
          /\ out' = Append(out, Labelled("element", vec.elems[i + 1]))
    /\ (mode = "main" /\ pc = "at_3") => (i = 3 /\ lastRead' = 7 /\ raised' = "none")
    /\ (mode = "main" /\ pc = "try_at_9") => (i = 9 /\ raised' = "out_of_range")
    /\ vec' = vec

C4_CheckedAccessRaisesFromLength ==
    [][AtStatement => C4_Step]_vars

\* at(5) on the vector of length 5 has raised out_of_range.
C4_Witness ==
    /\ prog = "unsigned_length"
    /\ raised = "out_of_range"
    /\ idx = Len(vec.elems)
    /\ Len(vec.elems) = 5

RaisedInTry == prog = "unsigned_length" /\ pc = "try_at_9" /\ raised = "out_of_range"

\* C5: when the checked access in the try block of the unsigned-length
\* example raises out_of_range (at(9) in main), the handler at the call site
\* catches and logs it, prime is unchanged, and execution continues: the four
\* later accesses run, each reads element 3 (7), and main returns 0.
C5_AfterHandler ==
    (prog = "unsigned_length" /\ caught # << >>) =>
        /\ caught = <<"out_of_range">>
        /\ raised = "none"
        /\ vec = VectorOf(Prime5)
        /\ status # "crashed"
        /\ ValuesOf(out, "continuing") = <<0>>
        /\ status = "done" =>
              /\ exitCode = 0
              /\ \A k \in 1..4 : ValuesOf(out, AccessOrder[k]) = <<7>>
              /\ \A k \in 1..4 : out[Len(out) - 4 + k].what = AccessOrder[k]

C5_CaughtThenContinues ==
    /\ [](C5_AfterHandler)
    /\ [](RaisedInTry => (mode = "main" => idx = 9) /\ vec = VectorOf(Prime5))
    /\ []((prog = "unsigned_length" /\ status = "running" /\ (RaisedInTry \/ caught # << >>))
            => ENABLED Next)
    /\ [][RaisedInTry => (pc' = "catch" /\ status' = "running")]_vars
    /\ [][(prog = "unsigned_length" /\ pc = "catch") =>
            (caught' = <<"out_of_range">> /\ pc' = "access_constexpr")]_vars

\* main has caught the exception of at(9), run the four accesses and returned 0.
C5_Witness ==
    /\ prog = "unsigned_length" /\ mode = "main"
    /\ status = "done" /\ exitCode = 0
    /\ caught = <<"out_of_range">>
    /\ idx = 9
    /\ lastRead = 7

SayNumberReads == {k \in 1..Len(accesses) : accesses[k].op \in {"read", "read_member"}}

\* C6: in the dangling-capture example the closure sayNumber refers to the
\* heap integer (it holds no copy of the 7); the integer is deleted before
\* the first invocation, so every invocation of sayNumber reads storage whose
\* lifetime has ended, no invocation reads live storage, and every run that
\* gets past the first invocation has performed a use after free.
C6_EveryInvocationIsUseAfterFree ==
    prog = "dangling_capture" =>
        /\ closures # << >> =>
              /\ closures[1].byRef
              /\ closures[1].name = ptr
        /\ \A k \in SayNumberReads :
              /\ accesses[k].op = "read"
              /\ ~accesses[k].live
              /\ \E d \in 1..(k - 1) : accesses[d].op = "delete" /\ accesses[d].live
        /\ pc = "sayNumber" => ~heap[ptr].live
        /\ (pc = "sayNumber" /\ status = "running") => Cardinality(SayNumberReads) = Len(out)
        /\ status = "crashed" => Cardinality(SayNumberReads) = Len(out) + 1
        /\ status = "done" => Cardinality(SayNumberReads) = 4
        /\ status # "running" => Cardinality(SayNumberReads) >= 1

\* All four invocations have read the freed integer and main has returned.
C6_Witness ==
    /\ prog = "dangling_capture"
    /\ status = "done"
    /\ Cardinality({k \in SayNumberReads : ~accesses[k].live}) = 4
    /\ ~heap[ptr].live

\* C7: in the stack-overflow example every call of eat_stack increments
\* g_counter by one and prints it before recursing, so the value a call
\* prints is the number of eat_stack calls active; the guard g_counter > 0
\* holds in every call, so no call of eat_stack returns (the stack never
\* shrinks) and "hi" is never printed.
C7_State ==
    prog = "stack_overflow" =>
        /\ status = "running" => g_counter = Len(out)
        /\ status = "crashed" => g_counter = Len(out) + 1
        /\ \A k \in 1..Len(out) : out[k] = Labelled("g_counter", k)
        /\ ValuesOf(out, "hi") = << >>
        /\ stack # << >>
        /\ \A k \in 1..Len(stack) :
              k < Len(stack) => stack[k].at = "after_call"
        /\ Top(stack).at \in {"guard", "call"} /\ Top(stack).fn = "eat_stack" =>
              /\ out[Len(out)].v = ActiveCalls(stack)
              /\ g_counter > 0
        /\ Top(stack).at # "after_call"

C7_CounterIsDepthAndNoReturn ==
    /\ [](C7_State)
    /\ [][prog = "stack_overflow" =>
            /\ Len(stack') >= Len(stack)
            /\ g_counter' \in {g_counter, g_counter + 1}
            /\ ActiveCalls(stack') > ActiveCalls(stack) => g_counter' = g_counter]_vars

\* Five calls of eat_stack are active and the fifth has printed 5.
C7_Witness ==
    /\ prog = "stack_overflow"
    /\ ActiveCalls(stack) = 5
    /\ Top(stack).at = "guard"
    /\ out[Len(out)].v = 5

\* C8: for every bound B on the number of active calls the stack-overflow
\* example eventually exceeds the bound and is terminated abnormally; until
\* then it prints 1, 2, ... in increasing order without gaps, and main never
\* completes normally.
C8_EventuallyOverflows ==
    /\ [](prog = "stack_overflow" =>
            /\ status # "done"
            /\ Values(out) = [k \in 1..Len(out) |-> k]
            /\ Len(out) <= stackLimit)
    /\ (prog = "stack_overflow" ~>
            (status = "crashed" /\ Values(out) = [k \in 1..stackLimit |-> k]))

\* With a stack of 7 frames the process has been terminated after printing 1..7.
C8_Witness ==
    /\ prog = "stack_overflow"
    /\ stackLimit = 7
    /\ status = "crashed"
    /\ Values(out) = <<1, 2, 3, 4, 5, 6, 7>>

ReadsConsole == prog \in {"io_basics", "return_values", "function_parameters"}

InvalidExtractions == {k \in 1..Len(extracts) : extracts[k].why = "invalid"}

\* C9: when an extraction of an int finds no valid integer, the target is
\* assigned 0, the extraction is not retried, every later extraction of the
\* run fails at once without consuming input and leaves its value-initialised
\* target at 0, and the program still runs to return 0 and prints the zeros
\* (and what it computes from them).
C9_FailedExtractionZeroesAndSticks ==
    (ReadsConsole /\ InvalidExtractions # {}) =>
        /\ \A k \in InvalidExtractions :
              /\ extracts[k].value = 0
              /\ locals[extracts[k].target] = 0
              /\ \A j \in (k + 1)..Len(extracts) :
                    /\ extracts[j].why = "bad_state"
                    /\ extracts[j].consumed = 0
                    /\ extracts[j].before = 0
                    /\ extracts[j].value = 0
                    /\ locals[extracts[j].target] = 0
                    /\ extracts[j].target # extracts[k].target
              /\ \A q \in 1..Len(out) :
                    out[q].what = extracts[k].target => out[q].v = 0
        /\ Cardinality(InvalidExtractions) = 1
        /\ cin.fail
        /\ status # "crashed"
        /\ status = "running" => ENABLED Next
        /\ status = "done" =>
              /\ exitCode = 0
              /\ prog = "io_basics" => Len(extracts) = 5 /\ Len(out) = 7
              /\ prog # "io_basics" =>
                    /\ Len(extracts) = 1
                    /\ ValuesOf(out, "value") = <<0>>
                    /\ ValuesOf(out, "doubled") = <<0>>

\* The basics example read y = 7, failed on the next token, and printed
\* 7, then 0 and 0, then 0 and 0.
C9_Witness ==
    /\ prog = "io_basics"
    /\ status = "done"
    /\ extracts[2].why = "invalid"
    /\ Len(extracts) = 5
    /\ Values(out) = <<5, 5, 7, 0, 0, 0, 0>>

\* C10: add(x, y) is x + y and multiply(x, y) is x * y whatever was read
\* from the console before; with x = 2 and y = 3 the function-parameters
\* example prints 5 and 6, and the forward-declaration example prints 7 for
\* add(3, 4).
C10_AddAndMultiply ==
    /\ (prog = "function_parameters" /\ pc \in {"doSomething", "return", "done"}) =>
          /\ ValuesOf(out, "sum") = <<locals["x"] + locals["y"]>>
          /\ ValuesOf(out, "product") = <<locals["x"] * locals["y"]>>
          /\ mode = "main" =>
                /\ locals["x"] = 2 /\ locals["y"] = 3
                /\ ValuesOf(out, "sum") = <<5>>
                /\ ValuesOf(out, "product") = <<6>>
    /\ (prog = "forward_declaration" /\ pc \in {"return", "done"}) =>
          ValuesOf(out, "sum") = <<7>>

\* The function-parameters example failed to read its input and still
\* printed 5 and 6.
C10_Witness ==
    /\ prog = "function_parameters" /\ mode = "main"
    /\ status = "done"
    /\ extracts[1].why = "invalid"
    /\ ValuesOf(out, "sum") = <<5>>
    /\ ValuesOf(out, "product") = <<6>>
\* C11: a vector built with the list constructor has as many elements as the
\* initializer list has values, in list order: v3{10}, v4 = {10} and v5({10})
\* have length 1 and hold 10, v6{} and v7 = {} have length 0, while the direct
\* initialization v2(10) gives length 10 with every element 0.
C11_ListConstructorLength ==
    (prog = "vector_intro" /\ pc \in {"print_sizes", "return", "done"}) =>
        /\ \A v \in {"v3", "v4", "v5"} :
              /\ Len(locals[v].elems) = Len(given.list)
              /\ locals[v].elems = given.list
        /\ Len(locals.v6.elems) = 0 /\ Len(locals.v7.elems) = 0
        /\ Len(locals.v2.elems) = given.count
        /\ \A k \in 1..given.count : locals.v2.elems[k] = 0
        /\ mode = "main" =>
              /\ \A v \in {"v3", "v4", "v5"} : locals[v].elems = <<10>>
              /\ Len(locals.v2.elems) = 10
              /\ pc \in {"return", "done"} =>
                    /\ ValuesOf(out, "v2") = <<10>>
                    /\ ValuesOf(out, "v3") = <<1>> /\ ValuesOf(out, "v4") = <<1>>
                    /\ ValuesOf(out, "v5") = <<1>>
                    /\ ValuesOf(out, "v6") = <<0>> /\ ValuesOf(out, "v7") = <<0>>

\* main has printed the sizes 10, 1, 1, 1, 0, 0 and returned.
C11_Witness ==
    /\ prog = "vector_intro" /\ mode = "main" /\ status = "done"
    /\ locals.v3.elems = <<10>>
    /\ Len(locals.v2.elems) = 10
    /\ ValuesOf(out, "v2") = <<10>> /\ ValuesOf(out, "v3") = <<1>>
ScalarPrograms == {"return_values", "two_value_sum", "function_parameters"}

\* The statements of the scalar console examples, in source order.
ScalarOrder(p) ==
    IF p = "return_values" THEN <<"getValueFromUser", "print_double", "return", "done">>
    ELSE IF p = "two_value_sum" THEN <<"read_x", "read_y", "print_sum", "return", "done">>
    ELSE <<"getValueFromUser", "print_double", "math", "doSomething", "return", "done">>

Position(order, at) == CHOOSE k \in 1..Len(order) : order[k] = at

C12_Step == Position(ScalarOrder(prog), pc') = Position(ScalarOrder(prog), pc) + 1

C12_State ==
    prog \in ScalarPrograms =>
        /\ status # "crashed"
        /\ exitCode \in {-1, 0}
        /\ status = "done" <=> exitCode = 0
        /\ status = "done" <=> pc = "done"
        /\ pc \in {ScalarOrder(prog)[k] : k \in 1..Len(ScalarOrder(prog))}

\* C12: the scalar console examples (doubling, two-value sum, function
\* parameters) end with exit code 0 on every console input, malformed,
\* partial and empty input included: they never end abnormally and never
\* return another code; while main has not returned a next statement can
\* always run (no input makes the program wait or stop), and every step
\* takes main one statement forward, so that main returns 0 after at most
\* as many steps as it has statements.
C12_ExitCodeZeroOnEveryInput ==
    /\ [](C12_State)
    /\ []((prog \in ScalarPrograms /\ status = "running") => ENABLED Next)
    /\ [][(prog \in ScalarPrograms) => C12_Step]_vars

\* The two-value sum example got one number and then the end of the input,
\* and returned 0.
C12_Witness ==
    /\ prog = "two_value_sum"
    /\ status = "done" /\ exitCode = 0
    /\ extracts[1].why = "ok"
    /\ extracts[2].why = "eof"
    /\ ValuesOf(out, "sum") = <<7>>

\* The examples that prompt more than once, and the variables they extract
\* into, in source order.
PromptingPrograms == {"io_basics", "lambda_captures"}

InputOrder(p) ==
    IF p = "io_basics" THEN <<"y", "a", "b", "i", "j">>
    ELSE <<"search", "width", "height">>

\* The labels under which main writes what it got from the console.
WrittenResults == {"y", "a", "b", "i", "j", "found", "area", "area2"}

ResultWritten == \E k \in 1..Len(out) : out[k].what \in WrittenResults

\* The last demonstration block of the example has written its result.
LastResultWritten == \E k \in 1..Len(out) : out[k].what \in {"j", "area"}

\* The output record o is computed from the extractions of its own block.
FromOwnInput(o) ==
    IF o.what \in {"y", "a", "b", "i", "j"}
    THEN /\ Position(InputOrder(prog), o.what) <= Len(extracts)
         /\ o.v = extracts[Position(InputOrder(prog), o.what)].value
    ELSE IF o.what = "found"
    THEN /\ Len(extracts) >= 1
         /\ o.v = FindIf(Arr, extracts[1].value)
    ELSE IF o.what \in {"area", "area2"}
    THEN /\ Len(extracts) = 3
         /\ (o.v = 1) \in AreaKnown(extracts[2].value, extracts[3].value)
         /\ o.v \in {0, 1}
    ELSE TRUE

C13_State ==
    prog \in PromptingPrograms =>
        /\ Len(extracts) <= Len(InputOrder(prog))
        /\ \A k \in 1..Len(extracts) : extracts[k].target = InputOrder(prog)[k]
        /\ \A k \in 1..Len(out) : FromOwnInput(out[k])

C13_Step ==
    /\ ~(extracts' # extracts /\ out' # out)
    /\ LastResultWritten => extracts' = extracts

\* C13 as stated: once an example has written a result to the console, it
\* never reads console input again.
C13_AsStated ==
    [][(prog \in PromptingPrograms /\ ResultWritten) => extracts' = extracts]_vars

\* C13, amended: within each demonstration block of an example the units run
\* once each in the order Input, Computation, Output: every variable is
\* extracted once, in source order, each written result is computed from
\* the extractions of its own block, which precede it, no statement both
\* reads and writes, and after the last block has written nothing is read.
\* An example holds several blocks, so that input is read again after an
\* earlier block has written its result.
C13_BlocksRunInputThenOutput ==
    /\ [](C13_State)
    /\ [][(prog \in PromptingPrograms) => C13_Step]_vars

\* The lambda-captures example found "banana" for the search word "an", then
\* read the width 5 and the height 8 and reported their area as known.
C13_Witness ==
    /\ prog = "lambda_captures" /\ mode = "main" /\ status = "done"
    /\ Len(extracts) = 3
    /\ extracts[1].value = <<"a", "n">>
    /\ extracts[2].value = 5 /\ extracts[3].value = 8
    /\ ValuesOf(out, "found") = <<2>>
    /\ ValuesOf(out, "area") = <<1>>
    /\ ValuesOf(out, "area2") = <<1>>

\* The uses of the heap object so far: the operation and whether the object
\* was alive.
Uses == [k \in 1..Len(accesses) |-> <<accesses[k].op, accesses[k].live>>]

\* The whole sequence of uses that main performs.
DPUses ==
    << <<"write", TRUE>>, <<"delete", TRUE>>, <<"read", FALSE>>, <<"delete", FALSE>> >>

\* C14 as stated: in the dangling-pointer example both bad states, the read
\* of the freed object and then the second delete of it, are reached on
\* every run: a run that has ended has performed the write, the delete, the
\* read after the delete and the delete after the delete.
C14_AsStated ==
    (prog = "dangling_pointer" /\ status # "running") => Uses = DPUses

C14_State ==
    prog = "dangling_pointer" =>
        /\ Len(Uses) <= Len(DPUses)
        /\ Uses = SubSeq(DPUses, 1, Len(Uses))
        /\ status = "done" => Uses = DPUses
        /\ status # "running" => Len(Uses) >= 3
        /\ (status # "running" /\ Len(Uses) = 3) =>
              (status = "crashed" /\ pc = "dereference" /\ out = << >>)
        /\ Len(out) <= 1
        /\ Len(out) = 1 => Len(Uses) >= 3

\* C14 amended: in the dangling-pointer example, after the first delete of
\* ptr the program dereferences ptr (a read of the freed object: use after
\* free) and then, unless that dereference itself faults and ends the run,
\* deletes ptr again (a delete of the freed object: double free).  The uses
\* of the object are always a prefix of write, delete, read-after-delete,
\* delete-after-delete; the use after free is reached on every run, the
\* double free on every run in which the dereference has written a value,
\* and a step is always possible until the run has ended.  ptr is never
\* assigned after its initialisation.
C14_UseAfterFreeThenDoubleFree ==
    /\ [](C14_State)
    /\ []((prog = "dangling_pointer" /\ status = "running") => ENABLED Next)
    /\ [][(prog = "dangling_pointer" /\ ptr # "null") => ptr' = ptr]_vars

\* The run printed what the freed storage held and was aborted by the
\* second delete.
C14_Witness ==
    /\ prog = "dangling_pointer"
    /\ status = "crashed"
    /\ Uses = DPUses
    /\ Len(out) = 1
    /\ ptr = "cell1" /\ ~heap[ptr].live

C15_Step ==
    (prog = "vector_layout" /\ pc = "push_back" /\ pc' = "print_after") =>
        /\ Len(vec.elems) <= vec.cap
        /\ Len(vec'.elems) = Len(vec.elems) + 1
        /\ \A k \in 1..Len(vec.elems) : vec'.elems[k] = vec.elems[k]
        /\ vec'.elems[Len(vec'.elems)] = 21
        /\ Len(vec'.elems) <= vec'.cap
        /\ (Len(vec.elems) = vec.cap /\ vec.cap > 0) => vec'.cap = 2 * vec.cap
        /\ mode = "main" =>
              /\ Len(vec.elems) = 8 /\ vec.cap = 8
              /\ Len(vec'.elems) = 9 /\ vec'.cap = 16

\* C15: push_back(21) on the full vector of the memory-layout example (8
\* elements, capacity 8) makes the length one more, keeps every previous
\* element at its index, puts 21 last and doubles the capacity (16); the
\* length is at most the capacity before and after the append.  The same
\* holds of the append to every full non-empty vector.
C15_PushBackOnFullVector == [][C15_Step]_vars

\* The append has run on the eight primes: nine elements, 21 last, in an
\* allocation for 16.
C15_Witness ==
    /\ prog = "vector_layout" /\ mode = "main" /\ pc = "print_after"
    /\ vec.elems = <<2, 3, 5, 7, 11, 13, 17, 19, 21>>
    /\ vec.cap = 16
    /\ ValuesOf(out, "capacity") = <<8>>

\* The step is a call of myInvoke.
IsInvoke == IsClosureOp /\ lastOp'.op \in {"invoke", "invoke_ref"}

\* The values 1, 2, ..., count.
UpTo(count) == [k \in 1..count |-> k]

C16_Step ==
    (IsInvoke /\ lastOp'.op = "invoke" /\ ~closures[lastOp'.c].wrapped) =>
        /\ closures' = closures
        /\ callCount' = callCount
        /\ locals' = locals
        /\ out' = Append(out, Printed(lastOp'.c, closures[lastOp'.c].member + 1))

C16_State ==
    (prog = "lambda_copy" /\ mode = "main" /\ Len(closures) >= 3) =>
        /\ ~closures[3].wrapped
        /\ closures[3].member = 0
        /\ callCount[3] = 0
        /\ PrintedBy(out, 3) = [k \in 1..Len(PrintedBy(out, 3)) |-> 1]
        /\ opCount >= 9 => PrintedBy(out, 3) = <<1, 1, 1>>

\* C16: myInvoke(count2), where count2 is a closure that is no
\* std::function, runs a fresh temporary copy of count2 on each call: the
\* call prints the counter of count2 plus one and changes neither count2 nor
\* any other closure nor the outer variables; in main all three calls print
\* 1 and the counter of count2 is still 0.
C16_MyInvokeRunsACopy ==
    /\ [](C16_State)
    /\ [][(prog = "lambda_copy") => C16_Step]_vars

\* main has made its three calls myInvoke(count2).
C16_Witness ==
    /\ prog = "lambda_copy" /\ mode = "main"
    /\ opCount = 9
    /\ PrintedBy(out, 3) = <<1, 1, 1>>
    /\ closures[3].member = 0

C17_Step ==
    (IsInvoke /\ (lastOp'.op = "invoke_ref" \/ closures[lastOp'.c].wrapped)) =>
        /\ closures'[lastOp'.c].member = closures[lastOp'.c].member + 1
        /\ callCount'[lastOp'.c] = callCount[lastOp'.c] + 1
        /\ \A d \in 1..Len(closures) : d # lastOp'.c => closures'[d] = closures[d]
        /\ locals' = locals
        /\ out' = Append(out, Printed(lastOp'.c, closures[lastOp'.c].member + 1))

C17_State ==
    prog = "lambda_copy" =>
        /\ \A c \in 1..Len(closures) :
              (closures[c].wrapped \/ (mode = "main" /\ c = 5)) =>
                 /\ closures[c].member = callCount[c]
                 /\ PrintedBy(out, c) = UpTo(callCount[c])
        /\ (mode = "main" /\ Len(closures) >= 4) => closures[4].wrapped
        /\ (mode = "main" /\ opCount >= 13) => PrintedBy(out, 4) = <<1, 2, 3>>
        /\ (mode = "main" /\ status = "done") =>
              /\ ~closures[5].wrapped
              /\ PrintedBy(out, 5) = <<1, 2, 3>>

\* C17: myInvoke(count3), where count3 is a std::function, and
\* myInvoke(std::ref(count4)) make no copy: the call runs the object itself,
\* so its counter goes up by one and the new counter is printed; the k-th
\* call prints k, and in main the three calls print 1, 2, 3 in both cases.
C17_MyInvokeRunsTheObject ==
    /\ [](C17_State)
    /\ [][(prog = "lambda_copy") => C17_Step]_vars

\* main has returned: count3 and count4 have counted to 3.
C17_Witness ==
    /\ prog = "lambda_copy" /\ mode = "main" /\ status = "done"
    /\ PrintedBy(out, 4) = <<1, 2, 3>> /\ closures[4].member = 3
    /\ PrintedBy(out, 5) = <<1, 2, 3>> /\ closures[5].member = 3
    /\ Values(out) = <<1, 2, 2, 1, 1, 1, 1, 2, 3, 1, 2, 3>>

\* C18: in the lambda-captures example throwShell captures shells (3) by
\* value in a mutable lambda: its copy persists across calls, so the first
\* call reports 2 shells left and the second 1 (the n-th reports 3 - n),
\* while the outer shells is 3 throughout, which is what main prints.
C18_MutableValueCapturePersists ==
    prog = "lambda_captures" =>
        /\ locals["shells"] = 3
        /\ Len(closures) >= 1 =>
              /\ ~closures[1].byRef /\ closures[1].name = "shells"
              /\ closures[1].member = 3 - callCount[1]
              /\ PrintedBy(out, 1) = [k \in 1..callCount[1] |-> 3 - k]
        /\ (mode = "main" /\ opCount >= 3) => PrintedBy(out, 1) = <<2, 1>>
        /\ (mode = "main" /\ opCount >= 4) => PrintedBy(out, 0)[1] = 3

\* throwShell has reported 2 and 1 and main has printed the outer shells.
C18_Witness ==
    /\ prog = "lambda_captures" /\ mode = "main"
    /\ opCount = 4
    /\ PrintedBy(out, 1) = <<2, 1>>
    /\ closures[1].member = 1
    /\ PrintedBy(out, 0) = <<3>>

\* C19: in main of the lambda-captures example the lambda that captures
\* nEnemies by reference is defined and never invoked, so nEnemies is 3
\* throughout and main reports 3 enemies left.  (Used freely, every
\* invocation of that lambda or of a copy takes one enemy away.)
C19_UninvokedClosureChangesNothing ==
    prog = "lambda_captures" =>
        /\ locals["nEnemies"] = 3 - SumOver(callCount, Capturing("nEnemies"))
        /\ mode = "main" =>
              /\ locals["nEnemies"] = 3
              /\ \A c \in Capturing("nEnemies") : closures[c].byRef /\ callCount[c] = 0
              /\ opCount >= 9 => Capturing("nEnemies") = {3}
              /\ opCount >= 10 => PrintedBy(out, 0)[3] = 3

\* main has defined the lambda, not invoked it, reported 3 enemies and
\* returned.
C19_Witness ==
    /\ prog = "lambda_captures" /\ mode = "main" /\ status = "done"
    /\ Capturing("nEnemies") = {3}
    /\ callCount = <<2, 2, 0>>
    /\ PrintedBy(out, 0) = <<3, 1, 3>>

\* C20: in the function-pointers example the outputs labelled as calling
\* foo() through fp4 (std::function), fp5 (std::function with CTAD) and fp6
\* (auto) are each the return value of foo, 5.
C20_AsStated ==
    (prog = "function_pointers" /\ status = "done") =>
        /\ ValuesOf(out, "fp4") = <<5>>
        /\ ValuesOf(out, "fp5") = <<5>>
        /\ ValuesOf(out, "fp6") = <<5>>

\* C21: transform, transform2 and transform3 called without the callback
\* give what transform gives with the callback square passed explicitly,
\* x * x, for every x; in the function-pointers example the four outputs
\* are the square of y, and for y = 2 all four are 4.
C21_DefaultCallbackIsSquare ==
    prog = "function_pointers" =>
        /\ \A fn \in {"transform", "transform2", "transform3"} :
              /\ Transform(fn, locals["y"], "omitted") = Transform("transform", locals["y"], "square")
              /\ Transform(fn, locals["y"], "omitted") = locals["y"] * locals["y"]
        /\ \A k \in 1..Len(out) :
              out[k].what \in DOMAIN FPTransforms => out[k].v = locals["y"] * locals["y"]
        /\ status = "done" =>
              \A at \in DOMAIN FPTransforms :
                  /\ ValuesOf(out, at) = <<locals["y"] * locals["y"]>>
                  /\ mode = "main" => ValuesOf(out, at) = <<4>>

\* main has returned after printing 4 for each of the four calls.
C21_Witness ==
    /\ prog = "function_pointers" /\ mode = "main" /\ status = "done"
    /\ locals["y"] = 2
    /\ ValuesOf(out, "transform") = <<4>>
    /\ ValuesOf(out, "transform_default") = <<4>>
    /\ ValuesOf(out, "transform2") = <<4>>
    /\ ValuesOf(out, "transform3") = <<4>>

\* The decimal digits of a small natural number.
RECURSIVE DecimalOf(_)
DecimalOf(v) == IF v < 10 THEN <<v>> ELSE DecimalOf(v \div 10) \o <<v % 10>>

\* C22: unsigned arithmetic in the unsigned-length example wraps modulo 2^w
\* at both ends: for the 16-bit x, 65535 + 1 gives 0, 0 - 1 gives 65535 and
\* the assignment of -80 gives 65456; for the 32-bit unsigned u = 2 and the
\* signed s = 3, u - s is evaluated as unsigned and gives 4294967295.  For
\* any u and s, u - s is the plain difference when s is not negative and
\* not above u, and otherwise the difference plus 2^32 (or minus 2^32).
C22_UnsignedArithmeticWraps ==
    prog = "unsigned_length" =>
        /\ ValuesOf(out, "x") = SubSeq(<<0, 65535, 65456>>, 1, Len(ValuesOf(out, "x")))
        /\ x \in 0..65535
        /\ pc \notin {"x_inc", "x_dec", "x_neg"} => ValuesOf(out, "x") = <<0, 65535, 65456>>
        /\ \A k \in 1..Len(out) : out[k].what = "u_minus_s" =>
              /\ (given.s >= 0 /\ given.u >= given.s) => out[k].v = DecimalOf(given.u - given.s)
              /\ (given.s >= 0 /\ given.u < given.s) =>
                    UIntMinus(ToUInt(given.u), ToUInt(given.s)) =
                        [hi |-> 65535, lo |-> 65536 - (given.s - given.u)]
              /\ given.s < 0 => out[k].v = DecimalOf(given.u - given.s)
              /\ (given.u = 0 /\ given.s = 1) =>
                    out[k].v = <<4, 2, 9, 4, 9, 6, 7, 2, 9, 5>>
              /\ mode = "main" => out[k].v = <<4, 2, 9, 4, 9, 6, 7, 2, 9, 5>>
        /\ (pc \notin {"x_inc", "x_dec", "x_neg", "u_minus_s"}) =>
              Len(ValuesOf(out, "u_minus_s")) = 1

\* main has printed 0, 65535, 65456 and 4294967295.
C22_Witness ==
    /\ prog = "unsigned_length" /\ mode = "main"
    /\ pc = "call_doSomethingNTimes"
    /\ x = 65456
    /\ ValuesOf(out, "x") = <<0, 65535, 65456>>
    /\ ValuesOf(out, "u_minus_s") = << <<4, 2, 9, 4, 9, 6, 7, 2, 9, 5>> >>

\* The argument of doSomethingNTimes as a 16-bit unsigned value.
AsUnsigned16 == IF given.arg < 0 THEN given.arg + 65536 ELSE given.arg

C23_State ==
    prog = "unsigned_length" =>
        /\ pc = "loop" =>
              /\ n = AsUnsigned16
              /\ 0 <= idx /\ idx <= n
              /\ counter = idx
        /\ ValuesOf(out, "counter") # << >> =>
              /\ ValuesOf(out, "counter") = <<AsUnsigned16>>
              /\ counter = AsUnsigned16
              /\ mode = "main" => ValuesOf(out, "counter") = <<65535>>
              /\ given.arg = 0 => ValuesOf(out, "counter") = <<0>>
        /\ (pc = "loop" /\ given.arg = 0) => idx = 0

C23_Step ==
    (prog = "unsigned_length" /\ pc = "loop") =>
        \/ pc' = "loop" /\ idx < n /\ idx' = idx + 1 /\ counter' = counter + 1
        \/ pc' # "loop" /\ idx = n /\ ValuesOf(out', "counter") = <<counter>>

\* C23: doSomethingNTimes always terminates and reports its argument as
\* converted to a 16-bit unsigned value: every step of the loop either takes
\* i one closer to n or, at i = n, leaves the loop and reports the counter,
\* and a step is always possible, so the call ends after n iterations;
\* doSomethingNTimes(-1) runs the body 65535 times and reports 65535, and an
\* argument of 0 runs it zero times.
C23_LoopRunsArgumentAsUnsigned ==
    /\ [](C23_State)
    /\ []((prog = "unsigned_length" /\ pc = "loop" /\ status = "running") => ENABLED Next)
    /\ [][C23_Step]_vars

\* doSomethingNTimes(-1) has returned after 65535 iterations.
C23_Witness ==
    /\ prog = "unsigned_length" /\ mode = "main"
    /\ given.arg = -1
    /\ pc = "size"
    /\ idx = 65535 /\ counter = 65535
    /\ ValuesOf(out, "counter") = <<65535>>

\* The lines written so far.
Lines(o) == [k \in 1..Len(o) |-> o[k].what]

\* The functions of the active calls, the one called last at the end.
Active(st) == [k \in 1..Len(st) |-> st[k].fn]

\* The order of the lines the claim gives for the call-stack example, and the
\* order of the statements of main, doPrint, doA and doB.
StatedOrder ==
    [call_stack |->
        <<"In main()...", "Calling f()...", "--- Pushing f()", "------ Pushing g()",
          "--------- Pushing h()", "--------- Popping h()", "------ Popping g()",
          "--- Popping f()", "Returned to main().">>,
     functions |->
        <<"Starting main()", "Calling doPrint()...", "    In doPrint()",
          "Returned control to main()", "Calling doPrint() again...",
          "    In doPrint()", "Returned control to main()", "Calling doA()...",
          "    Starting doA()", "    Calling doB()...", "        In doB()",
          "    Returned control to doA()", "    Ending doA()",
          "Returned control to main()", "Ending main()">>]

\* The last line each function writes, and who calls whom.
LastLineOf ==
    [call_stack |-> [main |-> "Returned to main().", f |-> "--- Popping f()",
                     g |-> "------ Popping g()", h |-> "--------- Popping h()"],
     functions |-> [main |-> "Ending main()", doPrint |-> "    In doPrint()",
                    doA |-> "    Ending doA()", doB |-> "        In doB()"]]

Callees ==
    [call_stack |-> {<<"main", "f">>, <<"f", "g">>, <<"g", "h">>},
     functions |-> {<<"main", "doPrint">>, <<"main", "doA">>, <<"doA", "doB">>}]

C24_State ==
    prog \in CallPrograms =>
        /\ Len(out) <= Len(StatedOrder[prog])
        /\ Lines(out) = SubSeq(StatedOrder[prog], 1, Len(out))
        /\ \A c \in Callees[prog] : \A i \in 1..Len(out) :
              Lines(out)[i] = LastLineOf[prog][c[1]] =>
                  \E j \in 1..(i - 1) : Lines(out)[j] = LastLineOf[prog][c[2]]
        /\ status = "running" => (stack # << >> /\ Active(stack)[1] = "main")
        /\ status = "done" => (Lines(out) = StatedOrder[prog] /\ stack = << >>)

C24_Step ==
    prog \in CallPrograms =>
        /\ \/ Active(stack') = Active(stack)
           \/ /\ Len(stack') = Len(stack) + 1
              /\ SubSeq(Active(stack'), 1, Len(stack)) = Active(stack)
              /\ <<Top(stack).fn, Top(stack').fn>> \in Callees[prog]
           \/ /\ Len(stack) = Len(stack') + 1
              /\ SubSeq(Active(stack), 1, Len(stack')) = Active(stack')
              /\ out # << >> /\ Lines(out)[Len(out)] = LastLineOf[prog][Top(stack).fn]
              /\ stack' # << >> => stack'[Len(stack')] = stack[Len(stack')]
        /\ (out' # out /\ Lines(out')[Len(out')] = LastLineOf[prog]["main"]) =>
              Active(stack') = <<"main">>

\* C24: calls nest strictly last-in-first-out and run to completion.  The
\* lines appear in the stated order (main's entry lines, Pushing f, g, h,
\* Popping h, g, f, Returned to main; and the order of the statements of
\* main, doPrint, doA and doB in the functions example); the last line of a
\* function never appears before the last line of a function it called; each
\* step leaves the active calls alone, pushes one call made by the function
\* on top, or pops the function on top after its last line, leaving its
\* caller where the call was made; main alone is active when it writes its
\* last line; and a step is always possible until main has returned.
C24_CallsNestLastInFirstOut ==
    /\ [](C24_State)
    /\ []((prog \in CallPrograms /\ status = "running") => ENABLED Next)
    /\ [][C24_Step]_vars

\* h has written both its lines while f, g and h are all still active.
C24_Witness ==
    /\ prog = "call_stack"
    /\ Active(stack) = <<"main", "f", "g", "h">>
    /\ out # << >> /\ Lines(out)[Len(out)] = "--------- Popping h()"

\* The elements of the array in the order of the source.
Fruits ==
    << <<"a", "p", "p", "l", "e">>, <<"b", "a", "n", "a", "n", "a">>,
       <<"w", "a", "l", "n", "u", "t">>, <<"l", "e", "m", "o", "n">> >>

\* Whether the characters of s appear in w one after the other from some
\* position on.
Occurs(w, s) ==
    \E start \in 1..(Len(w) + 1) :
        \A i \in 1..Len(s) : start + i - 1 <= Len(w) /\ w[start + i - 1] = s[i]

\* C25: the captured-search example reports the first element of (apple,
\* banana, walnut, lemon) that contains the search string as a contiguous
\* substring, reports "Not found" exactly when no element contains it, and
\* leaves the array as it was.
C25_FirstElementContainingSearch ==
    (prog = "lambda_captures" /\ mode = "main") =>
        /\ locals["arr"] = Fruits
        /\ Len(ValuesOf(out, "found")) <= 1
        /\ pc \notin {"search", "find"} =>
              \E k \in 0..Len(Fruits) :
                 /\ ValuesOf(out, "found") = <<k>>
                 /\ k = 0 <=> \A e \in 1..Len(Fruits) : ~Occurs(Fruits[e], locals["search"])
                 /\ k # 0 =>
                       /\ Occurs(Fruits[k], locals["search"])
                       /\ \A e \in 1..(k - 1) : ~Occurs(Fruits[e], locals["search"])

\* The search for "nu" has reported walnut, the third element, after apple
\* and banana were tried.
C25_Witness ==
    /\ prog = "lambda_captures" /\ mode = "main"
    /\ locals["search"] = <<"n", "u">>
    /\ ValuesOf(out, "found") = <<3>>

\* The input with every space turned into a newline and every newline into
\* a space.
SwapSeparators(b) ==
    [k \in 1..Len(b) |-> IF b[k] = " " THEN "\n" ELSE IF b[k] = "\n" THEN " " ELSE b[k]]

\* What two extraction statements, one after the other, read from the
\* stream into two value-initialised int variables.
Separately(stream) ==
    LET first == ExtractInt(stream, 0)
        second == ExtractInt(first.cin, 0)
    IN  [values |-> <<first.value, second.value>>, why |-> <<first.why, second.why>>,
         cin |-> second.cin]

C26_State ==
    (prog = "io_basics" /\ pc \in {"read_ab", "read_i"}) =>
        /\ pc = "read_ab" => (locals["a"] = 0 /\ locals["b"] = 0)
        /\ pc = "read_i" => (locals["i"] = 0 /\ locals["j"] = 0)
        /\ \E swapped \in {[cin EXCEPT !.buf = SwapSeparators(cin.buf)]} :
              /\ Separately(swapped).values = Separately(cin).values
              /\ Separately(swapped).why = Separately(cin).why

C26_Step ==
    prog = "io_basics" =>
        /\ (pc = "read_ab" /\ pc' # pc) =>
              /\ <<locals'["a"], locals'["b"]>> = Separately(cin).values
              /\ cin' = Separately(cin).cin
        /\ (pc = "read_i" /\ pc' # pc) =>
              /\ pc' = "read_j"
              /\ locals'["i"] = Separately(cin).values[1]
              /\ locals'["j"] = 0
              /\ ExtractInt(cin', 0).value = Separately(cin).values[2]
              /\ ExtractInt(cin', 0).cin = Separately(cin).cin
        /\ (pc = "read_j" /\ pc' # pc) =>
              /\ locals'["j"] = ExtractInt(cin, 0).value
              /\ locals'["i"] = locals["i"]
              /\ cin' = ExtractInt(cin, 0).cin

\* C26: console input is one buffered stream of whitespace-delimited tokens
\* taken in arrival order.  The chained extraction std::cin >> a >> b stores
\* the two values, and leaves the stream, that two separate extraction
\* statements give on the same stream, which is what std::cin >> i;
\* std::cin >> j store; and the two values are the same when the spaces of
\* the input are newlines and the newlines spaces.
C26_ChainedEqualsSeparate ==
    /\ [](C26_State)
    /\ [][C26_Step]_vars

\* The input held 7 and -12 twice after the first number: the chained
\* extraction and the two separate ones have read the same two values.
C26_Witness ==
    /\ prog = "io_basics" /\ status = "done"
    /\ Len(extracts) = 5
    /\ \A k \in 1..5 : extracts[k].why = "ok"
    /\ locals["a"] = 7 /\ locals["b"] = -12
    /\ locals["i"] = 7 /\ locals["j"] = -12
====
